---------------------------- MODULE Spec2Model ----------------------------
(***************************************************************************)
(* Deduplication and ingestion of the news cron (src/deduplication.py,     *)
(* src/fetcher_cloud.py, src/database_supabase.py).                        *)
(*                                                                         *)
(* Texts are strings over the ASCII characters of Alphabet.  The regular   *)
(* expressions of the source are computed character by character.          *)
(***************************************************************************)
EXTENDS Integers, Sequences, FiniteSets, TLC

(***************************************************************************)
(* Characters                                                              *)
(***************************************************************************)
\* The characters of the modelled texts, in code-point order.
Alphabet == " $%,-./0123456789:<>ABCDEFGHIJKLMNOPQRSTUVWXYZ_abcdefghijklmnopqrstuvwxyz"
UpperChars == "ABCDEFGHIJKLMNOPQRSTUVWXYZ"
LowerChars == "abcdefghijklmnopqrstuvwxyz"
DigitChars == "0123456789"

Chr(s, i) == SubSeq(s, i, i)
CharsOf(s) == {Chr(s, i) : i \in 1..Len(s)}
Min(S) == CHOOSE x \in S : \A y \in S : x <= y

AlphabetSet == CharsOf(Alphabet)
UpperSet == CharsOf(UpperChars)
LowerSet == CharsOf(LowerChars)
DigitSet == CharsOf(DigitChars)
\* \w of the regular expressions
WordSet == UpperSet \cup LowerSet \cup DigitSet \cup {"_"}
\* \s and \S
SpaceSet == {" "}
NonSpaceSet == AlphabetSet \ SpaceSet

\* code-point order of the characters (list.sort compares strings by it)
Ord == [c \in AlphabetSet |-> CHOOSE i \in 1..Len(Alphabet) : Chr(Alphabet, i) = c]
\* str.lower on one character
LowerOf == [c \in AlphabetSet |->
              IF c \in UpperSet
                THEN Chr(LowerChars, CHOOSE i \in 1..Len(UpperChars) : Chr(UpperChars, i) = c)
                ELSE c]

\* the last index of the longest run of characters of S that starts at i
\* (i - 1 when the character at i is not in S): a greedy S* at i
RunEnd(s, i, S) ==
    CHOOSE j \in (i - 1)..Len(s) :
        /\ \A k \in i..j : Chr(s, k) \in S
        /\ (j = Len(s) \/ Chr(s, j + 1) \notin S)

\* s[i:] starts with prefix p
StartsWithAt(s, i, p) ==
    /\ i + Len(p) - 1 <= Len(s)
    /\ SubSeq(s, i, i + Len(p) - 1) = p

RECURSIVE MapChars(_, _)
\* the string s with every character c replaced by f[c], one half of s
\* after the other
MapChars(s, f) ==
    IF s = "" THEN ""
    ELSE IF Len(s) = 1 THEN f[s]
    ELSE MapChars(SubSeq(s, 1, Len(s) \div 2), f)
            \o MapChars(SubSeq(s, Len(s) \div 2 + 1, Len(s)), f)

\* the position of a whitespace character of s nearest to its middle, 0
\* when s has none.  A match of a pattern that matches no whitespace lies
\* on one side of it, so such a pattern can be applied to the two sides
\* separately.
MiddleSpace(s) ==
    LET spaces == {p \in 1..Len(s) : Chr(s, p) \in SpaceSet}
        far(p) == IF 2 * p >= Len(s) THEN 2 * p - Len(s) ELSE Len(s) - 2 * p
    IN  IF spaces = {} THEN 0
        ELSE CHOOSE p \in spaces : \A q \in spaces : far(p) <= far(q)

\* str.split(): the maximal runs of non-whitespace characters, in order:
\* those before a whitespace character, then those after it
RECURSIVE Split(_)
Split(s) ==
    IF s = "" THEN <<>>
    ELSE IF MiddleSpace(s) = 0 THEN <<s>>
    ELSE Split(SubSeq(s, 1, MiddleSpace(s) - 1))
            \o Split(SubSeq(s, MiddleSpace(s) + 1, Len(s)))

\* ' '.join(words)
RECURSIVE Join(_)
Join(words) ==
    IF words = <<>> THEN ""
    ELSE IF Len(words) = 1 THEN words[1]
    ELSE words[1] \o " " \o Join(Tail(words))

\* the value of an expression whose locals are bound to the elements of
\* one-element sets: each local is computed once, as an assignment
\* computes it
Once(S) == CHOOSE x \in S : TRUE

\* a < b for strings, by code points
StrLess(a, b) ==
    LET n == IF Len(a) < Len(b) THEN Len(a) ELSE Len(b)
        d == {k \in 1..n : Chr(a, k) # Chr(b, k)}
    IN  IF d = {} THEN Len(a) < Len(b)
        ELSE Ord[Chr(a, Min(d))] < Ord[Chr(b, Min(d))]

RECURSIVE InsertSorted(_, _)
InsertSorted(w, sorted) ==
    IF sorted = <<>> THEN <<w>>
    ELSE IF StrLess(w, sorted[1]) THEN <<w>> \o sorted
    ELSE <<sorted[1]>> \o InsertSorted(w, Tail(sorted))

\* list.sort() of a list of strings
RECURSIVE SortWords(_)
SortWords(words) ==
    IF words = <<>> THEN <<>>
    ELSE Once({InsertSorted(words[1], sorted) : sorted \in {SortWords(Tail(words))}})

SeqToSet(q) == {q[i] : i \in 1..Len(q)}

(***************************************************************************)
(* deduplication.py: normalize_text                                        *)
(***************************************************************************)
\* The stopwords of the source that are ASCII; the accented ones cannot
\* occur in a text over Alphabet.
STOPWORDS ==
    {"the", "a", "an", "and", "or", "but", "in", "on", "at", "to", "for",
     "of", "with", "by", "from", "as", "is", "was", "are", "were", "been",
     "be", "have", "has", "had", "do", "does", "did", "will", "would",
     "could", "should", "may", "might", "must", "shall", "can", "need",
     "it", "its", "this", "that", "these", "those", "i", "you", "he",
     "she", "we", "they", "what", "which", "who", "whom", "when", "where",
     "why", "how", "all", "each", "every", "both", "few", "more", "most",
     "other", "some", "such", "no", "not", "only", "own", "same", "so",
     "than", "too", "very", "just", "also", "now", "here", "there",
     "says", "said", "report", "reports", "according", "new", "news",
     "o", "os", "um", "uma", "uns", "umas", "de", "da",
     "das", "dos", "em", "na", "nas", "nos", "por", "para", "com",
     "sem", "sob", "sobre", "entre", "e", "ou", "mas", "se", "que",
     "qual", "quais", "como", "quando", "onde", "porque", "isso", "isto",
     "esse", "essa", "este", "esta", "aquele", "aquela", "ser", "estar",
     "ter", "haver", "fazer", "dizer", "disse", "diz", "vai",
     "pode", "podem", "deve", "devem", "segundo", "ainda", "mais", "menos",
     "muito", "pouco", "bem", "mal", "sempre", "nunca",
     "novo", "nova", "novos", "novas"}

\* end of the match of https?://\S+ at i, 0 when there is none
UrlMatchEnd(s, i) ==
    LET after == IF StartsWithAt(s, i, "https://") THEN i + 8
                 ELSE IF StartsWithAt(s, i, "http://") THEN i + 7
                 ELSE 0
    IN  IF after = 0 THEN 0
        ELSE IF RunEnd(s, after, NonSpaceSet) >= after
               THEN RunEnd(s, after, NonSpaceSet) ELSE 0

\* re.sub(r'https?://\S+', '', text)
RECURSIVE RemoveUrlsFrom(_, _)
RemoveUrlsFrom(s, i) ==
    IF i > Len(s) THEN ""
    ELSE IF UrlMatchEnd(s, i) > 0 THEN RemoveUrlsFrom(s, UrlMatchEnd(s, i) + 1)
    ELSE Chr(s, i) \o RemoveUrlsFrom(s, i + 1)

\* the same on a whole text, the text before a whitespace character and
\* the text after it separately
RECURSIVE RemoveUrls(_)
RemoveUrls(s) ==
    IF MiddleSpace(s) = 0 THEN RemoveUrlsFrom(s, 1)
    ELSE RemoveUrls(SubSeq(s, 1, MiddleSpace(s) - 1))
            \o Chr(s, MiddleSpace(s))
            \o RemoveUrls(SubSeq(s, MiddleSpace(s) + 1, Len(s)))

\* re.sub(r'[^\w\s]', ' ', text)
PunctToSpace == [c \in AlphabetSet |-> IF c \in WordSet \cup SpaceSet THEN c ELSE " "]

\* end of the match of \b\d+\b at i, 0 when there is none: a run of digits
\* with no word character on either side
IsolatedNumberEnd(s, i) ==
    LET j == RunEnd(s, i, DigitSet)
    IN  IF /\ j >= i
           /\ (i = 1 \/ Chr(s, i - 1) \notin WordSet)
           /\ (j = Len(s) \/ Chr(s, j + 1) \notin WordSet)
        THEN j ELSE 0

\* re.sub(r'\b\d+\b', '', text)
RECURSIVE RemoveNumbersFrom(_, _)
RemoveNumbersFrom(s, i) ==
    IF i > Len(s) THEN ""
    ELSE IF IsolatedNumberEnd(s, i) > 0
           THEN RemoveNumbersFrom(s, IsolatedNumberEnd(s, i) + 1)
    ELSE Chr(s, i) \o RemoveNumbersFrom(s, i + 1)

\* the same on a whole text, the text before a whitespace character and
\* the text after it separately
RECURSIVE RemoveNumbers(_)
RemoveNumbers(s) ==
    IF MiddleSpace(s) = 0 THEN RemoveNumbersFrom(s, 1)
    ELSE RemoveNumbers(SubSeq(s, 1, MiddleSpace(s) - 1))
            \o Chr(s, MiddleSpace(s))
            \o RemoveNumbers(SubSeq(s, MiddleSpace(s) + 1, Len(s)))

\* [w for w in words if w not in STOPWORDS and len(w) > 2]
KeepWord(w) == w \notin STOPWORDS /\ Len(w) > 2

\* normalize_text without words.sort()
normalize_text_unsorted(text) ==
    IF text = "" THEN ""
    ELSE LET lowered == MapChars(text, LowerOf)
             nourl == RemoveUrls(lowered)
             nopunct == MapChars(nourl, PunctToSpace)
             nonum == RemoveNumbers(nopunct)
             words == SelectSeq(Split(nonum), KeepWord)
         IN  Join(words)

normalize_text(text) ==
    IF text = "" THEN ""
    ELSE LET lowered == MapChars(text, LowerOf)
             nourl == RemoveUrls(lowered)
             nopunct == MapChars(nourl, PunctToSpace)
             nonum == RemoveNumbers(nopunct)
             words == SelectSeq(Split(nonum), KeepWord)
         IN  Join(SortWords(words))

(***************************************************************************)
(* fetcher_cloud.py: clean_html, calculate_priority                        *)
(***************************************************************************)
\* end of the match of <[^>]+> at i, 0 when there is none
TagMatchEnd(s, i) ==
    LET j == RunEnd(s, i + 1, AlphabetSet \ {">"})
    IN  IF Chr(s, i) = "<" /\ j >= i + 1 /\ j < Len(s) THEN j + 1 ELSE 0

\* re.sub(r'<[^>]+>', '', text)
RECURSIVE RemoveTagsFrom(_, _)
RemoveTagsFrom(s, i) ==
    IF i > Len(s) THEN ""
    ELSE IF TagMatchEnd(s, i) > 0 THEN RemoveTagsFrom(s, TagMatchEnd(s, i) + 1)
    ELSE Chr(s, i) \o RemoveTagsFrom(s, i + 1)

\* re.sub(r'\s+', ' ', text)
RECURSIVE CollapseSpacesFrom(_, _)
CollapseSpacesFrom(s, i) ==
    IF i > Len(s) THEN ""
    ELSE IF Chr(s, i) \in SpaceSet
           THEN " " \o CollapseSpacesFrom(s, RunEnd(s, i, SpaceSet) + 1)
    ELSE Chr(s, i) \o CollapseSpacesFrom(s, i + 1)

\* str.strip()
Strip(s) ==
    LET first == RunEnd(s, 1, SpaceSet) + 1
        keep == {j \in first..Len(s) : Chr(s, j) \notin SpaceSet}
    IN  IF keep = {} THEN ""
        ELSE SubSeq(s, first, CHOOSE j \in keep : \A m \in keep : m <= j)

clean_html(text) ==
    IF text = "" THEN ""
    ELSE Strip(CollapseSpacesFrom(RemoveTagsFrom(text, 1), 1))

\* kw in text
Contains(text, kw) ==
    \E i \in 1..(Len(text) - Len(kw) + 1) : SubSeq(text, i, i + Len(kw) - 1) = kw

\* The loop over positive_keywords from keyword k on; a score is the
\* integer the float sum of 2.0 and 1.0 equals.
RECURSIVE priority_loop(_, _, _, _, _, _)
priority_loop(title, text, positive_keywords, k, score, matched) ==
    IF k > Len(positive_keywords) THEN [score |-> score, matched |-> matched]
    ELSE LET kw == positive_keywords[k]
         IN  IF Contains(text, kw)
               THEN priority_loop(title, text, positive_keywords, k + 1,
                                  score + (IF Contains(MapChars(title, LowerOf), kw)
                                             THEN 2 ELSE 1),
                                  Append(matched, kw))
             ELSE priority_loop(title, text, positive_keywords, k + 1, score, matched)

\* calculate_priority without the negative keywords
calculate_priority_no_negative(title, description, positive_keywords, negative_keywords) ==
    priority_loop(title, MapChars(title \o " " \o description, LowerOf),
                  positive_keywords, 1, 0, <<>>)

calculate_priority(title, description, positive_keywords, negative_keywords) ==
    LET text == MapChars(title \o " " \o description, LowerOf)
    IN  IF \E k \in 1..Len(negative_keywords) : Contains(text, negative_keywords[k])
          THEN [score |-> -1, matched |-> <<>>]
        ELSE priority_loop(title, text, positive_keywords, 1, 0, <<>>)

(***************************************************************************)
(* The texts of the model                                                  *)
(***************************************************************************)
\* the titles of the test block of deduplication.py
T1 == "Fed Raises Interest Rates by 0.25%"
T2 == "Federal Reserve increases interest rates by 0.25 percent"

\* titles and descriptions is_duplicate is called with
DupTitles ==
    {T1, T2, "The News", "2024: 10%", "Apple Banana Cherry", "Cherry Banana Apple",
     "Apple Banana Cherry Date", "Gold 2024", "Oil 2024"}
DupDescs == {"", "Banana Date"}

\* the entries the feeds deliver: title, link and summary as fetched
EntryA == [title |-> "<b>Apple</b> Banana  Cherry", link |-> "a", summary |-> ""]
EntryB == [title |-> "Apple Banana Cherry Date", link |-> "b", summary |-> ""]
EntryD == [title |-> "Banana Cherry Date Egg", link |-> "d", summary |-> ""]
EntryW == [title |-> "Wheat Export Ban", link |-> "w", summary |-> "<p>Gold</p>"]
EntryN == [title |-> "Gold Deal", link |-> "n", summary |-> "Sponsored content"]
EntryE == [title |-> "<br>", link |-> "e", summary |-> ""]
Catalog == {EntryA, EntryB, EntryD, EntryW, EntryN, EntryE}

\* clean_html on the texts of the feeds, computed once per text
RawTexts == {e.title : e \in Catalog} \cup {e.summary : e \in Catalog}
CleanOf == [t \in RawTexts |-> clean_html(t)]
Clean(text) == IF text \in RawTexts THEN CleanOf[text] ELSE clean_html(text)

\* f"{title} {desc}"
Combined(title, desc) == title \o " " \o desc

\* a key of a news dict: absent, None, a string or a number
Missing == [kind |-> "missing", v |-> ""]
Null == [kind |-> "null", v |-> ""]
Str(text) == [kind |-> "str", v |-> text]
NoScore == [kind |-> "missing", v |-> 0]
Num(n) == [kind |-> "num", v |-> n]

\* x.get(key, default)
Get(x, default) == IF x.kind = "missing" THEN default ELSE x
\* a value inside an f-string: None prints as "None"
Format(x) == IF x.kind = "null" THEN "None" ELSE x.v
\* x or ''
OrEmpty(x) == IF x.kind = "str" THEN x.v ELSE ""

\* the news dicts deduplicate_news_for_blog is called with
NewsS == [title |-> "apple banana cherry", description |-> Missing,
          content |-> Str("xx"), priority_score |-> Num(3)]
NewsX == [title |-> "banana cherry date", description |-> Str(""),
          content |-> Missing, priority_score |-> Num(2)]
NewsY == [title |-> "cherry date egg", description |-> Missing,
          content |-> Missing, priority_score |-> Num(1)]
NewsS0 == [title |-> "apple banana cherry", description |-> Null,
           content |-> Null, priority_score |-> NoScore]
NewsSc == [title |-> "Apple Banana Cherry", description |-> Missing,
           content |-> Str("xxx"), priority_score |-> Num(3)]
NewsSd == [title |-> "Apple Banana Cherry", description |-> Str("Banana Date"),
           content |-> Str("xx"), priority_score |-> Num(3)]
NewsItems == {NewsS, NewsX, NewsY, NewsS0, NewsSc, NewsSd}

\* news.get('description', '') as calculate_similarity_score formats it
DescriptionOf(news) == Format(Get(news.description, Str("")))

ModelTexts ==
    DupTitles \cup {Combined(t, d) : t \in DupTitles, d \in DupDescs}
    \cup {Clean(e.title) : e \in Catalog}
    \cup {Combined(Clean(e.title), Clean(e.summary)) : e \in Catalog}
    \cup {Combined(n.title, DescriptionOf(n)) : n \in NewsItems}

\* normalize_text on the texts of the model, computed once per text
NormalizedOf == [t \in ModelTexts |-> normalize_text(t)]
Normalized(text) == IF text \in ModelTexts THEN NormalizedOf[text] ELSE normalize_text(text)

(***************************************************************************)
(* deduplication.py: generate_title_hash, extract_key_entities             *)
(***************************************************************************)
\* hashlib.md5(s.encode('utf-8')).hexdigest()[:16]: a digest of the text.
\* Two different texts have different digests (no collision of the
\* truncated MD5 among the texts of the model).
Md5Hex16(s) == <<"md5", s>>

generate_title_hash(title) == Md5Hex16(Normalized(title))

\* end of the match of \$?\d+(?:\.\d+)?%? at i, 0 when there is none
NumberMatchEnd(s, i) ==
    LET d == IF Chr(s, i) = "$" THEN i + 1 ELSE i
        j == RunEnd(s, d, DigitSet)
        f == IF j + 2 <= Len(s) /\ Chr(s, j + 1) = "." /\ Chr(s, j + 2) \in DigitSet
               THEN RunEnd(s, j + 2, DigitSet) ELSE j
    IN  IF j < d THEN 0
        ELSE IF f + 1 <= Len(s) /\ Chr(s, f + 1) = "%" THEN f + 1 ELSE f

\* re.findall(r'\$?\d+(?:\.\d+)?%?', text): the matches, left to right,
\* none overlapping an earlier one
RECURSIVE NumbersFrom(_, _)
NumbersFrom(s, i) ==
    IF i > Len(s) THEN {}
    ELSE IF NumberMatchEnd(s, i) > 0
           THEN {SubSeq(s, i, NumberMatchEnd(s, i))}
                    \cup NumbersFrom(s, NumberMatchEnd(s, i) + 1)
    ELSE NumbersFrom(s, i + 1)

\* the same on a whole text, the text before a whitespace character and
\* the text after it separately
RECURSIVE Numbers(_)
Numbers(s) ==
    IF MiddleSpace(s) = 0 THEN NumbersFrom(s, 1)
    ELSE Numbers(SubSeq(s, 1, MiddleSpace(s) - 1))
            \cup Numbers(SubSeq(s, MiddleSpace(s) + 1, Len(s)))

\* re.findall(r'\b[A-Z]{2,5}\b', text): the runs of 2 to 5 capital letters
\* with no word character on either side
Acronyms(s) ==
    {SubSeq(s, i, RunEnd(s, i, UpperSet)) :
        i \in {k \in 1..Len(s) :
                 LET j == RunEnd(s, k, UpperSet)
                 IN  /\ j - k + 1 >= 2
                     /\ j - k + 1 <= 5
                     /\ (k = 1 \/ Chr(s, k - 1) \notin WordSet)
                     /\ (j = Len(s) \/ Chr(s, j + 1) \notin WordSet)}}

\* re.findall(r'(?<!^)(?<!\. )[A-Z][a-z]+', text): a capital letter and the
\* lower-case letters after it, not at the start of the text and not
\* after ". "
ProperNouns(s) ==
    {SubSeq(s, i, RunEnd(s, i + 1, LowerSet)) :
        i \in {k \in 2..Len(s) :
                 /\ Chr(s, k) \in UpperSet
                 /\ RunEnd(s, k + 1, LowerSet) >= k + 1
                 /\ ~(k >= 3 /\ SubSeq(s, k - 2, k - 1) = ". ")}}

extract_key_entities(text) ==
    Numbers(text) \cup Acronyms(text) \cup ProperNouns(text)

(***************************************************************************)
(* deduplication.py: calculate_similarity_score                            *)
(***************************************************************************)
\* A score is the exact fraction num/den of the float the source computes.
\* The float and the fraction compare alike with 0.6 for every pair of sets
\* of up to 8 elements, and with 0.5 for every pair of sets of up to 7 (for
\* jaccard 1/8 and entity overlap 3/4 the float sum is just below 0.5); the
\* texts of the model have fewer words.
Score(n, d) == [num |-> n, den |-> d]
ScoreGE(a, b) == \E x \in {a}, y \in {b} : x.num * y.den >= y.num * x.den
ScoreEq(a, b) == \E x \in {a}, y \in {b} : x.num * y.den = y.num * x.den
ScoreLess(a, b) == \E x \in {a}, y \in {b} : x.num * y.den < y.num * x.den
Max(a, b) == IF a >= b THEN a ELSE b

\* extract_key_entities on the texts of the model, computed once per text
EntitiesOf == [t \in ModelTexts |-> extract_key_entities(t)]
Entities(text) == IF text \in ModelTexts THEN EntitiesOf[text] ELSE extract_key_entities(text)

\* set(normalize_text(f"{title} {desc}").split())
WordsOf(title, desc) == SeqToSet(Split(Normalized(Combined(title, desc))))

\* calculate_similarity_score when the entity overlap is divided by
\* len(entities1)
calculate_similarity_score_first(title1, title2, desc1, desc2) ==
    Once({LET intersection == Cardinality(words1 \cap words2)
              union == Cardinality(words1 \cup words2)
              overlap == Cardinality(entities1 \cap entities2)
              first == Cardinality(entities1)
          IN  IF words1 = {} \/ words2 = {} THEN Score(0, 1)
              ELSE IF entities1 # {} /\ entities2 # {}
                     THEN Score(4 * intersection * first + 6 * overlap * union,
                                10 * union * first)
              ELSE Score(intersection, union) :
          words1 \in {WordsOf(title1, desc1)},
          words2 \in {WordsOf(title2, desc2)},
          entities1 \in {Entities(Combined(title1, desc1))},
          entities2 \in {Entities(Combined(title2, desc2))}})

\* calculate_similarity_score when the weights are applied whether or not
\* an entity set is empty
calculate_similarity_score_always_blend(title1, title2, desc1, desc2) ==
    Once({LET intersection == Cardinality(words1 \cap words2)
              union == Cardinality(words1 \cup words2)
              overlap == Cardinality(entities1 \cap entities2)
              most == Max(Cardinality(entities1), Cardinality(entities2))
          IN  IF words1 = {} \/ words2 = {} THEN Score(0, 1)
              ELSE IF entities1 # {} /\ entities2 # {}
                     THEN Score(4 * intersection * most + 6 * overlap * union,
                                10 * union * most)
              ELSE Score(4 * intersection, 10 * union) :
          words1 \in {WordsOf(title1, desc1)},
          words2 \in {WordsOf(title2, desc2)},
          entities1 \in {Entities(Combined(title1, desc1))},
          entities2 \in {Entities(Combined(title2, desc2))}})

\* calculate_similarity_score without the test for an empty word set
calculate_similarity_score_no_empty_test(title1, title2, desc1, desc2) ==
    Once({LET intersection == Cardinality(words1 \cap words2)
              union == Max(Cardinality(words1 \cup words2), 1)
              overlap == Cardinality(entities1 \cap entities2)
              most == Max(Cardinality(entities1), Cardinality(entities2))
          IN  IF entities1 # {} /\ entities2 # {}
                THEN Score(4 * intersection * most + 6 * overlap * union,
                           10 * union * most)
              ELSE Score(intersection, union) :
          words1 \in {WordsOf(title1, desc1)},
          words2 \in {WordsOf(title2, desc2)},
          entities1 \in {Entities(Combined(title1, desc1))},
          entities2 \in {Entities(Combined(title2, desc2))}})

\* calculate_similarity_score when the entities are extracted from the
\* normalized texts
calculate_similarity_score_normalized_entities(title1, title2, desc1, desc2) ==
    Once({LET intersection == Cardinality(words1 \cap words2)
              union == Cardinality(words1 \cup words2)
              overlap == Cardinality(entities1 \cap entities2)
              most == Max(Cardinality(entities1), Cardinality(entities2))
          IN  IF words1 = {} \/ words2 = {} THEN Score(0, 1)
              ELSE IF entities1 # {} /\ entities2 # {}
                     THEN Score(4 * intersection * most + 6 * overlap * union,
                                10 * union * most)
              ELSE Score(intersection, union) :
          words1 \in {WordsOf(title1, desc1)},
          words2 \in {WordsOf(title2, desc2)},
          entities1 \in {Entities(Normalized(Combined(title1, desc1)))},
          entities2 \in {Entities(Normalized(Combined(title2, desc2)))}})

calculate_similarity_score(title1, title2, desc1, desc2) ==
    Once({LET intersection == Cardinality(words1 \cap words2)
              union == Cardinality(words1 \cup words2)
              overlap == Cardinality(entities1 \cap entities2)
              most == Max(Cardinality(entities1), Cardinality(entities2))
          IN  IF words1 = {} \/ words2 = {} THEN Score(0, 1)
              ELSE IF entities1 # {} /\ entities2 # {}
                     \* (jaccard * 0.4) + (entity_overlap * 0.6)
                     THEN Score(4 * intersection * most + 6 * overlap * union,
                                10 * union * most)
              ELSE Score(intersection, union) :
          words1 \in {WordsOf(title1, desc1)},
          words2 \in {WordsOf(title2, desc2)},
          entities1 \in {Entities(Combined(title1, desc1))},
          entities2 \in {Entities(Combined(title2, desc2))}})

(***************************************************************************)
(* deduplication.py: is_duplicate                                          *)
(***************************************************************************)
\* threshold: float = 0.6, and threshold=0.6 of process_feed
DefaultThreshold == Score(6, 10)

\* Optional[int]: None is <<>>, an id n is <<n>>
None == <<>>
Some(n) == <<n>>
\* Python's truth value of an Optional[int]
Truthy(opt) == opt # None /\ opt[1] # 0

\* is_duplicate_loop without the hash check
RECURSIVE is_duplicate_loop_no_hash(_, _, _, _, _, _)
is_duplicate_loop_no_hash(new_title, new_desc, existing_titles, threshold, k, compared) ==
    IF k > Len(existing_titles) THEN [id |-> None, compared |-> compared]
    ELSE LET existing == existing_titles[k]
         IN  IF ScoreGE(calculate_similarity_score(new_title, existing.title,
                                                   new_desc, existing.description),
                        threshold)
               THEN [id |-> Some(existing.id), compared |-> Append(compared, k)]
             ELSE is_duplicate_loop_no_hash(new_title, new_desc, existing_titles,
                                            threshold, k + 1, Append(compared, k))

\* is_duplicate_loop with > in place of >=
RECURSIVE is_duplicate_loop_strict(_, _, _, _, _, _)
is_duplicate_loop_strict(new_title, new_desc, existing_titles, threshold, k, compared) ==
    IF k > Len(existing_titles) THEN [id |-> None, compared |-> compared]
    ELSE LET existing == existing_titles[k]
         IN  IF generate_title_hash(new_title) = generate_title_hash(existing.title)
               THEN [id |-> Some(existing.id), compared |-> compared]
             ELSE IF ~ScoreGE(threshold,
                              calculate_similarity_score(new_title, existing.title,
                                                         new_desc, existing.description))
               THEN [id |-> Some(existing.id), compared |-> Append(compared, k)]
             ELSE is_duplicate_loop_strict(new_title, new_desc, existing_titles,
                                           threshold, k + 1, Append(compared, k))

\* The loop of is_duplicate from candidate k on.  compared lists the
\* candidates calculate_similarity_score was called for so far.
RECURSIVE is_duplicate_loop(_, _, _, _, _, _)
is_duplicate_loop(new_title, new_desc, existing_titles, threshold, k, compared) ==
    IF k > Len(existing_titles) THEN [id |-> None, compared |-> compared]
    ELSE LET existing == existing_titles[k]
         IN  IF generate_title_hash(new_title) = generate_title_hash(existing.title)
               THEN [id |-> Some(existing.id), compared |-> compared]
             ELSE IF ScoreGE(calculate_similarity_score(new_title, existing.title,
                                                        new_desc, existing.description),
                             threshold)
               THEN [id |-> Some(existing.id), compared |-> Append(compared, k)]
             ELSE is_duplicate_loop(new_title, new_desc, existing_titles, threshold,
                                    k + 1, Append(compared, k))

is_duplicate_run(new_title, new_desc, existing_titles, threshold) ==
    is_duplicate_loop(new_title, new_desc, existing_titles, threshold, 1, <<>>)

is_duplicate(new_title, new_desc, existing_titles, threshold) ==
    is_duplicate_run(new_title, new_desc, existing_titles, threshold).id

(***************************************************************************)
(* deduplication.py: group_similar_news, select_best_from_group,           *)
(* deduplicate_news_for_blog                                               *)
(***************************************************************************)
\* threshold: float = 0.5, and threshold=0.5 of deduplicate_news_for_blog
BatchThreshold == Score(5, 10)

\* the similarity group_similar_news computes for two news dicts
SimilarityOfNews(news1, news2) ==
    calculate_similarity_score(news1.title, news2.title,
                               DescriptionOf(news1), DescriptionOf(news2))

\* the same for the dicts of the model, computed once per pair
NewsSimilarityOf == [pair \in NewsItems \X NewsItems |->
                        SimilarityOfNews(pair[1], pair[2])]
NewsSimilarity(news1, news2) ==
    IF news1 \in NewsItems /\ news2 \in NewsItems
      THEN NewsSimilarityOf[<<news1, news2>>]
      ELSE SimilarityOfNews(news1, news2)

\* the inner loop when j is not added to used
RECURSIVE group_members_no_used(_, _, _, _, _, _)
group_members_no_used(news_list, threshold, i, j, group, used) ==
    IF j > Len(news_list) THEN [group |-> group, used |-> used]
    ELSE IF j \in used
      THEN group_members_no_used(news_list, threshold, i, j + 1, group, used)
    ELSE IF ScoreGE(NewsSimilarity(news_list[i], news_list[j]), threshold)
      THEN group_members_no_used(news_list, threshold, i, j + 1,
                                 Append(group, j), used)
    ELSE group_members_no_used(news_list, threshold, i, j + 1, group, used)

\* the inner loop when an item is compared with every member of the group
RECURSIVE group_members_any(_, _, _, _, _, _)
group_members_any(news_list, threshold, i, j, group, used) ==
    IF j > Len(news_list) THEN [group |-> group, used |-> used]
    ELSE IF j \in used
      THEN group_members_any(news_list, threshold, i, j + 1, group, used)
    ELSE IF \E m \in SeqToSet(group) :
                ScoreGE(NewsSimilarity(news_list[m], news_list[j]), threshold)
      THEN group_members_any(news_list, threshold, i, j + 1,
                             Append(group, j), used \cup {j})
    ELSE group_members_any(news_list, threshold, i, j + 1, group, used)

\* the inner loop when the comparison is similarity > threshold
RECURSIVE group_members_strict(_, _, _, _, _, _)
group_members_strict(news_list, threshold, i, j, group, used) ==
    IF j > Len(news_list) THEN [group |-> group, used |-> used]
    ELSE IF j \in used
      THEN group_members_strict(news_list, threshold, i, j + 1, group, used)
    ELSE IF ~ScoreGE(threshold, NewsSimilarity(news_list[i], news_list[j]))
      THEN group_members_strict(news_list, threshold, i, j + 1,
                                Append(group, j), used \cup {j})
    ELSE group_members_strict(news_list, threshold, i, j + 1, group, used)

\* the inner loop of group_similar_news, for j, news2 in
\* enumerate(news_list[i+1:], start=i+1): the positions of the group of seed i
\* and the positions used, from position j on
RECURSIVE group_members(_, _, _, _, _, _)
group_members(news_list, threshold, i, j, group, used) ==
    IF j > Len(news_list) THEN [group |-> group, used |-> used]
    ELSE IF j \in used
      THEN group_members(news_list, threshold, i, j + 1, group, used)
    ELSE IF ScoreGE(NewsSimilarity(news_list[i], news_list[j]), threshold)
      THEN group_members(news_list, threshold, i, j + 1,
                         Append(group, j), used \cup {j})
    ELSE group_members(news_list, threshold, i, j + 1, group, used)

\* the outer loop when a new group is put in front of the others
RECURSIVE group_loop_prepend(_, _, _, _, _)
group_loop_prepend(news_list, threshold, i, groups, used) ==
    IF i > Len(news_list) THEN groups
    ELSE IF i \in used
      THEN group_loop_prepend(news_list, threshold, i + 1, groups, used)
    ELSE Once({group_loop_prepend(news_list, threshold, i + 1,
                                  <<inner.group>> \o groups, inner.used) :
               inner \in {group_members(news_list, threshold, i, i + 1, <<i>>,
                                         used \cup {i})}})

\* the outer loop of group_similar_news, for i, news1 in enumerate(news_list),
\* from position i on
RECURSIVE group_loop(_, _, _, _, _)
group_loop(news_list, threshold, i, groups, used) ==
    IF i > Len(news_list) THEN groups
    ELSE IF i \in used
      THEN group_loop(news_list, threshold, i + 1, groups, used)
    ELSE Once({group_loop(news_list, threshold, i + 1,
                          Append(groups, inner.group), inner.used) :
               inner \in {group_members(news_list, threshold, i, i + 1, <<i>>,
                                         used \cup {i})}})

\* the groups of group_similar_news as lists of positions of news_list
\* (from 1)
group_positions(news_list, threshold) ==
    IF news_list = <<>> THEN <<>>
    ELSE group_loop(news_list, threshold, 1, <<>>, {})

\* the dicts at the positions of a group
Members(news_list, positions) ==
    [k \in 1..Len(positions) |-> news_list[positions[k]]]

\* group_similar_news(news_list, threshold): the groups as lists of dicts
group_similar_news(news_list, threshold) ==
    Once({[g \in 1..Len(positions) |-> Members(news_list, positions[g])] :
          positions \in {group_positions(news_list, threshold)}})

\* the key of the sort of select_best_from_group
SortKey(x) ==
    <<Get(x.priority_score, Num(0)).v,
      Len(OrEmpty(Get(x.content, Str("")))),
      Len(OrEmpty(Get(x.description, Str(""))))>>

\* tuples of three numbers compared as Python compares them
KeyLess(a, b) ==
    \/ a[1] < b[1]
    \/ a[1] = b[1] /\ a[2] < b[2]
    \/ a[1] = b[1] /\ a[2] = b[2] /\ a[3] < b[3]

\* sorted(..., reverse=True) one element at a time: x goes behind the
\* elements whose key is not less than its own (the sort is stable)
RECURSIVE InsertDescending(_, _)
InsertDescending(x, sorted) ==
    IF sorted = <<>> THEN <<x>>
    ELSE IF KeyLess(SortKey(Head(sorted)), SortKey(x)) THEN <<x>> \o sorted
    ELSE <<Head(sorted)>> \o InsertDescending(x, Tail(sorted))

RECURSIVE SortedDescending(_, _)
SortedDescending(group, k) ==
    IF k = 0 THEN <<>>
    ELSE Once({InsertDescending(group[k], sorted) :
               sorted \in {SortedDescending(group, k - 1)}})

\* select_best_from_group when only priority_score is compared
select_best_by_score_only(group) ==
    LET top == CHOOSE k \in 1..Len(group) :
                  /\ \A m \in 1..Len(group) : SortKey(group[m])[1] <= SortKey(group[k])[1]
                  /\ \A m \in 1..(k - 1) : SortKey(group[m])[1] < SortKey(group[k])[1]
    IN  group[top]

select_best_from_group(group) ==
    IF Len(group) = 1 THEN group[1]
    ELSE SortedDescending(group, Len(group))[1]

\* deduplicate_news_for_blog when every member of a group is kept
deduplicate_news_for_blog_all(news_list) ==
    IF news_list = <<>> THEN <<>>
    ELSE Once({LET flat[g \in 0..Len(groups)] ==
                       IF g = 0 THEN <<>> ELSE flat[g - 1] \o groups[g]
               IN  flat[Len(groups)] :
               groups \in {group_similar_news(news_list, BatchThreshold)}})

deduplicate_news_for_blog(news_list) ==
    IF news_list = <<>> THEN <<>>
    ELSE Once({[g \in 1..Len(groups) |-> select_best_from_group(groups[g])] :
               groups \in {group_similar_news(news_list, BatchThreshold)}})

(***************************************************************************)
(* State                                                                   *)
(***************************************************************************)
VARIABLES
    dup_in,         \* the arguments of a call of is_duplicate
    dup_out,        \* None before the call, then Some(what the call returned)
    news,           \* the rows of table news, in insertion order
    cache,          \* _recent_titles_cache: None or Some(list of entries)
    cache_time,     \* _cache_time: None or Some(time of the last refresh)
    clock,          \* datetime.now(), in seconds
    ticks,          \* how often the clock has advanced
    runs,           \* calls of fetch_all_sources so far
    pc,             \* where the run is: idle, run, feed, done, aborted
    src,            \* position of the current source in sources
    remaining,      \* entries of feed.entries not processed yet
    stats,          \* stats of the running process_feed
    results,        \* results of the running fetch_all_sources
    accepted,       \* the entries given to add_to_cache in this run, in order
    lookup,         \* the last get_recent_titles_cached of this run: when it
                    \* was called, _cache_time before and after, whether it
                    \* queried the storage and whether the query raised
    workers,        \* parallel run: where each per-source worker is
    events,         \* parallel run: accesses to the cache so far
    blog_in,        \* the arguments of a call of the batch functions
    blog_out,       \* what group_similar_news and deduplicate_news_for_blog
                    \* returned for them
    prio_in,        \* the arguments of a call of calculate_priority
    prio_out,       \* what it returned
    norm_in,        \* the words of a text normalize_text is called with
    norm_out,       \* what it returned for the text, for its own result
                    \* and for the words in every other order
    insert_out,     \* the last call of insert_news on its own: its link,
                    \* the table before it and the id it returned
    queue,          \* the rows of table processing_queue with their news
    pq              \* the calls of process_queue: where the running one
                    \* is, what it fetched, kept and processed

dupVars == <<dup_in, dup_out>>
runVars == <<news, cache, cache_time, clock, ticks, runs, pc, src, remaining,
             stats, results, accepted, lookup>>
parVars == <<workers, events>>
\* the variables of the calls of normalize_text, insert_news and
\* process_queue
queueVars == <<queue, pq>>
callVars == <<norm_in, norm_out, insert_out, queueVars>>
fnVars == <<blog_in, blog_out, prio_in, prio_out, callVars>>
vars == <<dup_in, dup_out, news, cache, cache_time, clock, ticks, runs, pc, src,
          remaining, stats, results, accepted, lookup, workers, events, blog_in,
          blog_out, prio_in, prio_out, norm_in, norm_out, insert_out, queue, pq>>

(***************************************************************************)
(* Bounds and constants of the ingestion run                               *)
(***************************************************************************)
\* active sources of a run
NumSources == 2
\* most entries of one feed
MaxFeedLen == 2
\* most calls of fetch_all_sources
MaxRuns == 1
\* most advances of the clock
MaxTicks == 1
\* LIMIT of the query of get_recent_titles_for_dedup, 1000 in the source,
\* scaled to the size of the model
QueryLimit == 1
\* the seconds the 5-minute cache lives
CacheMaxAge == 300
\* hours=72 of the call of get_recent_titles_for_dedup
DedupHours == 72
\* timedelta.seconds is the remainder of the difference by one day
SecondsPerDay == 24 * 3600
\* the steps of the clock
Deltas == {CacheMaxAge + 1, SecondsPerDay}

\* get_keywords(): the positive and the negative keywords, lower-cased at load
PositiveKeywords == <<"gold", "banana">>
NegativeKeywords == <<"sponsored">>

(***************************************************************************)
(* database_supabase.py: insert_news; deduplication.py:                    *)
(* get_recent_titles_for_dedup                                             *)
(***************************************************************************)
\* the rows of news fetched in the last `hours` hours
RecentRows(now, hours) ==
    {i \in 1..Len(news) : news[i].fetched_at > now - hours * 3600}

\* ORDER BY fetched_at DESC: the orders of the rows the query may return
\* them in; rows fetched in the same second come in either order
QueryOrders(rows) ==
    {f \in [1..Cardinality(rows) -> rows] :
        \A i, j \in 1..Cardinality(rows) :
            i < j => /\ f[i] # f[j]
                     /\ news[f[i]].fetched_at >= news[f[j]].fetched_at}

\* the first `limit` rows of an order, as dicts of id, title, description
RowDicts(f, limit) ==
    [k \in 1..(IF Len(f) < limit THEN Len(f) ELSE limit) |->
        [id |-> news[f[k]].id, title |-> news[f[k]].title,
         description |-> news[f[k]].description]]

\* what get_recent_titles_for_dedup(conn, hours) may return at time now
get_recent_titles_for_dedup(now, hours) ==
    {RowDicts(f, QueryLimit) : f \in QueryOrders(RecentRows(now, hours))}

\* insert_news: None when the link is already stored (ON CONFLICT DO
\* NOTHING, INSERT OR IGNORE) or the statement fails, else the id of the new
\* row
\* insert_news without the conflict on link
insert_news_id_no_conflict(link, db_ok) ==
    IF ~db_ok THEN None ELSE Some(Len(news) + 1)

insert_news_id(link, db_ok) ==
    IF ~db_ok \/ (\E i \in 1..Len(news) : news[i].link = link)
      THEN None
      ELSE Some(Len(news) + 1)

\* the table after insert_news
insert_news_rows(source_id, title, link, description, priority_score, db_ok) ==
    IF insert_news_id(link, db_ok) = None THEN news
    ELSE Append(news, [id |-> Len(news) + 1, source_id |-> source_id,
                       title |-> title, link |-> link, description |-> description,
                       fetched_at |-> clock, priority_score |-> priority_score])

(***************************************************************************)
(* fetcher_cloud.py: the duplicate cache                                   *)
(***************************************************************************)
\* (now - _cache_time).seconds
TimedeltaSeconds(d) == d % SecondsPerDay

\* the condition of get_recent_titles_cached to query the storage
NeedsRefresh ==
    IF cache = None \/ cache_time = None THEN TRUE
    ELSE TimedeltaSeconds(clock - cache_time[1]) > CacheMaxAge

\* add_to_cache that loses the entry
add_to_cache_lost(c, news_id, title, description) == c

\* _recent_titles_cache after add_to_cache(news_id, title, description)
add_to_cache(c, news_id, title, description) ==
    IF c # None
      THEN Some(Append(c[1], [id |-> news_id, title |-> title,
                              description |-> description]))
      ELSE c

(***************************************************************************)
(* fetcher_cloud.py: fetch_all_sources, process_feed                       *)
(***************************************************************************)
\* stats at the start of process_feed; refresh_failed, processed and
\* insert_calls record whether the cache refresh raised, how many entries
\* the loop visited and how often it called insert_news
NewStats(source_id) ==
    [source_id |-> source_id, success |-> FALSE, news_count |-> 0,
     new_count |-> 0, skipped_count |-> 0, duplicate_count |-> 0,
     error |-> FALSE, refresh_failed |-> FALSE, processed |-> 0,
     insert_calls |-> 0]

DupIdle ==
    /\ dup_in = None
    /\ dup_out = None

ParIdle ==
    /\ workers = <<>>
    /\ events = 0

BlogIdle ==
    /\ blog_in = None
    /\ blog_out = None

PrioIdle ==
    /\ prio_in = None
    /\ prio_out = None

NormIdle ==
    /\ norm_in = None
    /\ norm_out = None

\* no call of process_queue so far
NoCall ==
    [pc |-> "idle", calls |-> 0, limit |-> 0, before |-> <<>>, fetched |-> <<>>,
     dropped |-> {}, batch |-> <<>>, next |-> 1, processed |-> {},
     dropped_earlier |-> {}, raised |-> FALSE]

QueueIdle ==
    /\ queue = <<>>
    /\ pq = NoCall

CallIdle ==
    /\ NormIdle
    /\ insert_out = None
    /\ QueueIdle

FnIdle == BlogIdle /\ PrioIdle /\ CallIdle

RunInit ==
    /\ news = <<>>
    /\ cache = None
    /\ cache_time = None
    /\ clock = 0
    /\ ticks = 0
    /\ runs = 0
    /\ pc = "idle"
    /\ src = 0
    /\ remaining = 0
    /\ stats = NewStats(0)
    /\ results = <<>>
    /\ accepted = <<>>
    /\ lookup = None

\* Time passes.  Only the lookup of the cache and the insert of a row read
\* the clock, so time passing elsewhere is time passing before the next of
\* them.
Tick(d) ==
    /\ ticks < MaxTicks
    /\ \/ pc = "run" /\ src <= NumSources
       \/ pc = "feed" /\ remaining > 0
    /\ ticks' = ticks + 1
    /\ clock' = clock + d
    /\ UNCHANGED <<news, cache, cache_time, runs, pc, src, remaining, stats,
                   results, accepted, lookup>>
    /\ UNCHANGED <<dupVars, parVars, fnVars>>

\* fetch_all_sources without the reset of the cache
StartRun_keeps_cache(sources_ok) ==
    /\ pc \in {"idle", "done", "aborted"}
    /\ runs < MaxRuns
    /\ runs' = runs + 1
    /\ pc' = IF sources_ok THEN "run" ELSE "aborted"
    /\ src' = 1
    /\ remaining' = 0
    /\ stats' = NewStats(0)
    /\ results' = <<>>
    /\ accepted' = <<>>
    /\ lookup' = None
    /\ UNCHANGED <<news, cache, cache_time, clock, ticks>>
    /\ UNCHANGED <<dupVars, parVars, fnVars>>

\* fetch_all_sources up to its loop: the cache is reset, then the sources
\* and the keywords are read (sources_ok: both queries succeed)
StartRun(sources_ok) ==
    /\ pc \in {"idle", "done", "aborted"}
    /\ runs < MaxRuns
    /\ runs' = runs + 1
    /\ cache' = None
    /\ cache_time' = None
    /\ pc' = IF sources_ok THEN "run" ELSE "aborted"
    /\ src' = 1
    /\ remaining' = 0
    /\ stats' = NewStats(0)
    /\ results' = <<>>
    /\ accepted' = <<>>
    /\ lookup' = None
    /\ UNCHANGED <<news, clock, ticks>>
    /\ UNCHANGED <<dupVars, parVars, fnVars>>

\* the end of process_feed after an exception: update_source_fetch, then
\* the result is appended by fetch_all_sources; update_source_fetch raising
\* ends the run
FailSource(st, update_ok) ==
    /\ stats' = st
    /\ remaining' = 0
    /\ IF update_ok
         THEN /\ results' = Append(results, st)
              /\ src' = src + 1
              /\ pc' = "run"
         ELSE /\ pc' = "aborted"
              /\ UNCHANGED <<results, src>>

\* process_feed of the next source when fetch_feed raises or returns no feed
FeedFails(update_ok) ==
    /\ pc = "run"
    /\ src <= NumSources
    /\ FailSource([NewStats(src) EXCEPT !.error = TRUE], update_ok)
    /\ UNCHANGED <<news, cache, cache_time, clock, ticks, runs, accepted, lookup>>
    /\ UNCHANGED <<dupVars, parVars, fnVars>>

\* process_feed of the next source when the query of
\* get_recent_titles_cached raises: the cache and its time stay as they
\* were and the exception reaches the handler of process_feed
LookupFails(n, update_ok) ==
    /\ pc = "run"
    /\ src <= NumSources
    /\ NeedsRefresh
    /\ FailSource([NewStats(src) EXCEPT !.news_count = n, !.error = TRUE,
                                        !.refresh_failed = TRUE], update_ok)
    /\ lookup' = Some([time |-> clock, failed |-> TRUE, refreshed |-> FALSE,
                       before |-> cache_time, loaded |-> cache_time])
    /\ UNCHANGED <<news, cache, cache_time, clock, ticks, runs, accepted>>
    /\ UNCHANGED <<dupVars, parVars, fnVars>>

\* process_feed of the next source up to its loop: the feed has n entries
\* and get_recent_titles_cached returns the cache, refreshed when needed
BeginFeed(n) ==
    /\ pc = "run"
    /\ src <= NumSources
    /\ stats' = [NewStats(src) EXCEPT !.news_count = n]
    /\ remaining' = n
    /\ pc' = "feed"
    /\ IF NeedsRefresh
         THEN /\ \E rows \in get_recent_titles_for_dedup(clock, DedupHours) :
                    cache' = Some(rows)
              /\ cache_time' = Some(clock)
         ELSE UNCHANGED <<cache, cache_time>>
    /\ lookup' = Some([time |-> clock, failed |-> FALSE, refreshed |-> NeedsRefresh,
                       before |-> cache_time, loaded |-> cache_time'])
    /\ UNCHANGED <<news, clock, ticks, runs, src, results, accepted>>
    /\ UNCHANGED <<dupVars, parVars, fnVars>>

\* a pass of the loop that counts a duplicate as skipped too
ProcessEntry_counts_twice(e, db_ok) ==
    /\ pc = "feed"
    /\ remaining > 0
    /\ remaining' = remaining - 1
    /\ LET title == Clean(e.title)
           link == e.link
           description == Clean(e.summary)
           recent_titles == cache[1]
           duplicate_id == is_duplicate(title, description, recent_titles,
                                        DefaultThreshold)
           priority == calculate_priority(title, description,
                                          PositiveKeywords, NegativeKeywords)
           news_id == insert_news_id(link, db_ok)
           visited == [stats EXCEPT !.processed = @ + 1]
           called == [visited EXCEPT !.insert_calls = @ + 1]
       IN  IF title = "" \/ link = ""
             THEN /\ stats' = visited
                  /\ UNCHANGED <<news, cache, accepted>>
           ELSE IF Truthy(duplicate_id)
             THEN /\ stats' = [visited EXCEPT !.duplicate_count = @ + 1,
                                            !.skipped_count = @ + 1]
                  /\ UNCHANGED <<news, cache, accepted>>
           ELSE IF priority.score < 0
             THEN /\ stats' = [visited EXCEPT !.skipped_count = @ + 1]
                  /\ UNCHANGED <<news, cache, accepted>>
           ELSE /\ news' = insert_news_rows(src, title, link, description,
                                            priority.score, db_ok)
                /\ IF Truthy(news_id)
                     THEN /\ stats' = [called EXCEPT !.new_count = @ + 1]
                          /\ cache' = add_to_cache(cache, news_id[1], title, description)
                          /\ accepted' = Append(accepted,
                                                [id |-> news_id[1], title |-> title,
                                                 description |-> description,
                                                 link |-> link])
                     ELSE /\ stats' = called
                          /\ UNCHANGED <<cache, accepted>>
    /\ UNCHANGED <<cache_time, clock, ticks, runs, pc, src, results, lookup>>
    /\ UNCHANGED <<dupVars, parVars, fnVars>>

\* one pass of the loop of process_feed, for entry e; recent_titles is the
\* list object of _recent_titles_cache, so it shows the entries appended
ProcessEntry(e, db_ok) ==
    /\ pc = "feed"
    /\ remaining > 0
    /\ remaining' = remaining - 1
    /\ LET title == Clean(e.title)
           link == e.link
           description == Clean(e.summary)
           recent_titles == cache[1]
           duplicate_id == is_duplicate(title, description, recent_titles,
                                        DefaultThreshold)
           priority == calculate_priority(title, description,
                                          PositiveKeywords, NegativeKeywords)
           news_id == insert_news_id(link, db_ok)
           visited == [stats EXCEPT !.processed = @ + 1]
           called == [visited EXCEPT !.insert_calls = @ + 1]
       IN  IF title = "" \/ link = ""
             THEN /\ stats' = visited
                  /\ UNCHANGED <<news, cache, accepted>>
           ELSE IF Truthy(duplicate_id)
             THEN /\ stats' = [visited EXCEPT !.duplicate_count = @ + 1]
                  /\ UNCHANGED <<news, cache, accepted>>
           ELSE IF priority.score < 0
             THEN /\ stats' = [visited EXCEPT !.skipped_count = @ + 1]
                  /\ UNCHANGED <<news, cache, accepted>>
           ELSE /\ news' = insert_news_rows(src, title, link, description,
                                            priority.score, db_ok)
                /\ IF Truthy(news_id)
                     THEN /\ stats' = [called EXCEPT !.new_count = @ + 1]
                          /\ cache' = add_to_cache(cache, news_id[1], title, description)
                          /\ accepted' = Append(accepted,
                                                [id |-> news_id[1], title |-> title,
                                                 description |-> description,
                                                 link |-> link])
                     ELSE /\ stats' = called
                          /\ UNCHANGED <<cache, accepted>>
    /\ UNCHANGED <<cache_time, clock, ticks, runs, pc, src, results, lookup>>
    /\ UNCHANGED <<dupVars, parVars, fnVars>>

\* the end of process_feed after the loop, and the append of its result
FinishFeed(update_ok) ==
    /\ pc = "feed"
    /\ remaining = 0
    /\ stats' = [stats EXCEPT !.success = TRUE]
    /\ IF update_ok
         THEN /\ results' = Append(results, stats')
              /\ src' = src + 1
              /\ pc' = "run"
         ELSE /\ pc' = "aborted"
              /\ UNCHANGED <<results, src>>
    /\ UNCHANGED <<news, cache, cache_time, clock, ticks, runs, remaining,
                   accepted, lookup>>
    /\ UNCHANGED <<dupVars, parVars, fnVars>>

\* fetch_all_sources returns results
EndRun ==
    /\ pc = "run"
    /\ src > NumSources
    /\ pc' = "done"
    /\ UNCHANGED <<news, cache, cache_time, clock, ticks, runs, src, remaining,
                   stats, results, accepted, lookup>>
    /\ UNCHANGED <<dupVars, parVars, fnVars>>

RunNext ==
    \/ \E d \in Deltas : Tick(d)
    \/ \E ok \in BOOLEAN : StartRun(ok)
    \/ \E ok \in BOOLEAN : FeedFails(ok)
    \/ \E n \in 0..MaxFeedLen, ok \in BOOLEAN : LookupFails(n, ok)
    \/ \E n \in 0..MaxFeedLen : BeginFeed(n)
    \/ \E e \in Catalog, ok \in BOOLEAN : ProcessEntry(e, ok)
    \/ \E ok \in BOOLEAN : FinishFeed(ok)
    \/ EndRun

\* the sequential ingestion run
RunSpecInit == RunInit /\ DupIdle /\ ParIdle /\ FnIdle
Spec == RunSpecInit /\ [][RunNext]_vars

(***************************************************************************)
(* The loop of process_feed from a loaded cache                            *)
(***************************************************************************)
\* most rows stored before the feed is processed
MaxStored == 1

\* the entries earlier runs stored: title and link not empty, score >= 0
StoredEntries ==
    {e \in Catalog :
        /\ Clean(e.title) # ""
        /\ e.link # ""
        /\ calculate_priority(Clean(e.title), Clean(e.summary),
                              PositiveKeywords, NegativeKeywords).score >= 0}

\* the row insert_news stored for entry e
StoredRow(e, id) ==
    [id |-> id, source_id |-> 1, title |-> Clean(e.title), link |-> e.link,
     description |-> Clean(e.summary), fetched_at |-> 0,
     priority_score |-> calculate_priority(Clean(e.title), Clean(e.summary),
                                           PositiveKeywords, NegativeKeywords).score]

\* tables of rows with different links
StoredTables ==
    UNION {{[i \in 1..n |-> StoredRow(f[i], i)] :
               f \in {g \in [1..n -> StoredEntries] :
                         \A i, j \in 1..n : i # j => g[i].link # g[j].link}} :
           n \in 0..MaxStored}

\* process_feed of the first source at its loop: the rows are stored, the
\* feed is fetched and get_recent_titles_cached has loaded the cache
FeedInit ==
    /\ news \in StoredTables
    /\ clock = 0
    /\ \E rows \in get_recent_titles_for_dedup(clock, DedupHours) :
          cache = Some(rows)
    /\ cache_time = Some(clock)
    /\ ticks = 0
    /\ runs = 1
    /\ pc = "feed"
    /\ src = 1
    /\ remaining \in 0..MaxFeedLen
    /\ stats = [NewStats(src) EXCEPT !.news_count = remaining]
    /\ results = <<>>
    /\ accepted = <<>>
    /\ lookup = Some([time |-> clock, failed |-> FALSE, refreshed |-> TRUE,
                      before |-> None, loaded |-> cache_time])
    /\ DupIdle
    /\ ParIdle
    /\ FnIdle

FeedNext ==
    \/ \E e \in Catalog, ok \in BOOLEAN : ProcessEntry(e, ok)
    \/ \E ok \in BOOLEAN : FinishFeed(ok)

SpecFeed == FeedInit /\ [][FeedNext]_vars

(***************************************************************************)
(* A run of fetch_all_sources after an earlier run, up to the end of the   *)
(* loop of the first feed that is fetched                                  *)
(***************************************************************************)
\* the times the run starts at: with the earlier run, within the life of
\* its cache, and when its rows are older than the hours of the query
StartTimes == {0, CacheMaxAge, DedupHours * 3600 + SecondsPerDay}

\* the process after an earlier run: its rows are stored and the cache
\* still holds them, loaded at time 0
LaterRunInit ==
    /\ news \in StoredTables
    /\ cache = Some([i \in 1..Len(news) |->
                        [id |-> news[Len(news) + 1 - i].id,
                         title |-> news[Len(news) + 1 - i].title,
                         description |-> news[Len(news) + 1 - i].description]])
    /\ cache_time = Some(0)
    /\ clock \in StartTimes
    /\ ticks = 0
    /\ runs = 0
    /\ pc = "done"
    /\ src = NumSources + 1
    /\ remaining = 0
    /\ stats = NewStats(0)
    /\ results = <<>>
    /\ accepted = <<>>
    /\ lookup = None
    /\ DupIdle
    /\ ParIdle
    /\ FnIdle

LaterRunNext ==
    \/ \E d \in Deltas : Tick(d)
    \/ \E ok \in BOOLEAN : StartRun(ok)
    \/ \E ok \in BOOLEAN : FeedFails(ok)
    \/ \E n \in 0..MaxFeedLen, ok \in BOOLEAN : LookupFails(n, ok)
    \/ \E n \in 0..MaxFeedLen : BeginFeed(n)
    \/ \E e \in Catalog, ok \in BOOLEAN : ProcessEntry(e, ok)

SpecLaterRun == LaterRunInit /\ [][LaterRunNext]_vars

(***************************************************************************)
(* is_duplicate as a function of its arguments                             *)
(***************************************************************************)
\* most candidates of one call
MaxCands == 2

\* thresholds of the calls: 0.6, and one no similarity reaches
DupThresholds == {DefaultThreshold, Score(11, 10)}

\* candidate lists as the query returns them: the ids fall along the list
CandLists ==
    UNION {[1..n -> [title : DupTitles, description : DupDescs]] : n \in 0..MaxCands}
WithIds(l) ==
    [i \in 1..Len(l) |->
        [id |-> Len(l) + 1 - i, title |-> l[i].title, description |-> l[i].description]]

DupInit ==
    /\ dup_in \in [new_title : DupTitles, new_desc : DupDescs,
                   existing_titles : {WithIds(l) : l \in CandLists},
                   threshold : DupThresholds]
    /\ dup_out = None
    /\ RunInit
    /\ ParIdle
    /\ FnIdle

CallIsDuplicate ==
    /\ dup_out = None
    /\ dup_out' = Some(is_duplicate_run(dup_in.new_title, dup_in.new_desc,
                                        dup_in.existing_titles, dup_in.threshold))
    /\ UNCHANGED dup_in
    /\ UNCHANGED <<runVars, parVars, fnVars>>

DupNext == CallIsDuplicate
SpecDup == DupInit /\ [][DupNext]_vars

(***************************************************************************)
(* calculate_similarity_score as a function of its arguments               *)
(***************************************************************************)
\* the titles of the calls: those of is_duplicate, the empty title and a
\* title without entities
SimTitles == DupTitles \cup {"", "apple banana cherry"}

SimInit ==
    /\ dup_in \in [title1 : SimTitles, title2 : SimTitles,
                   desc1 : DupDescs, desc2 : DupDescs]
    /\ dup_out = None
    /\ RunInit
    /\ ParIdle
    /\ FnIdle

\* calculate_similarity_score(title1, title2, desc1, desc2) and the call
\* with the two items exchanged
CallSimilarity ==
    /\ dup_out = None
    /\ dup_out' = Some([forward |->
                            calculate_similarity_score(dup_in.title1, dup_in.title2,
                                                       dup_in.desc1, dup_in.desc2),
                        backward |->
                            calculate_similarity_score(dup_in.title2, dup_in.title1,
                                                       dup_in.desc2, dup_in.desc1)])
    /\ UNCHANGED dup_in
    /\ UNCHANGED <<runVars, parVars, fnVars>>

SimNext == CallSimilarity
SpecSim == SimInit /\ [][SimNext]_vars

(***************************************************************************)
(* normalize_text as a function of its argument                            *)
(***************************************************************************)
\* most words of a text
MaxWords == 3

\* the words of the texts: a stopword with a capital, capitalized words, a
\* word with punctuation inside, an abbreviation, a number, a percentage,
\* a word with digits and a URL
NormWords ==
    {"The", "Gold", "Oil-Price", "U.S.", "2024", "10%", "covid19",
     "https://x.io/a-b"}

\* the orders of n words
Orders(n) == {f \in [1..n -> 1..n] : \A i, j \in 1..n : i # j => f[i] # f[j]}

\* the text of the words in order f, a blank between two words
TextOf(words, f) == Join([k \in 1..Len(words) |-> words[f[k]]])

NormInit ==
    /\ norm_in \in UNION {[1..n -> NormWords] : n \in 0..MaxWords}
    /\ norm_out = None
    /\ insert_out = None
    /\ QueueIdle
    /\ BlogIdle
    /\ PrioIdle
    /\ DupIdle
    /\ ParIdle
    /\ RunInit

\* normalize_text(text), normalize_text of the result, and normalize_text
\* and generate_title_hash of the words of text in every order
CallNormalize ==
    /\ norm_out = None
    /\ norm_out' =
          Some(Once({[once |-> once,
                      twice |-> normalize_text(once),
                      hash |-> Md5Hex16(once),
                      reordered |-> {normalize_text(t) : t \in texts},
                      hashes |-> {generate_title_hash(t) : t \in texts}] :
                     once \in {normalize_text(TextOf(norm_in, [k \in 1..Len(norm_in) |-> k]))},
                     texts \in {{TextOf(norm_in, f) : f \in Orders(Len(norm_in))}}}))
    /\ UNCHANGED <<norm_in, insert_out, queueVars, blog_in, blog_out, prio_in,
                   prio_out>>
    /\ UNCHANGED <<dupVars, runVars, parVars>>

NormNext == CallNormalize
SpecNorm == NormInit /\ [][NormNext]_vars

(***************************************************************************)
(* insert_news as a function of the table                                  *)
(***************************************************************************)
\* the table of an earlier run
InsertInit ==
    /\ news \in StoredTables
    /\ insert_out = None
    /\ cache = None
    /\ cache_time = None
    /\ clock = 0
    /\ ticks = 0
    /\ runs = 0
    /\ pc = "idle"
    /\ src = 0
    /\ remaining = 0
    /\ stats = NewStats(0)
    /\ results = <<>>
    /\ accepted = <<>>
    /\ lookup = None
    /\ NormIdle
    /\ QueueIdle
    /\ BlogIdle
    /\ PrioIdle
    /\ DupIdle
    /\ ParIdle

\* insert_news(source_id, title, link, description, ...) for entry e;
\* db_ok: the statement does not raise
InsertNews(e, db_ok) ==
    /\ insert_out' = Some([link |-> e.link, db_ok |-> db_ok, before |-> news,
                           news_id |-> insert_news_id(e.link, db_ok)])
    /\ news' = insert_news_rows(1, Clean(e.title), e.link, Clean(e.summary),
                                calculate_priority(Clean(e.title), Clean(e.summary),
                                                   PositiveKeywords,
                                                   NegativeKeywords).score,
                                db_ok)
    /\ UNCHANGED <<cache, cache_time, clock, ticks, runs, pc, src, remaining,
                   stats, results, accepted, lookup>>
    /\ UNCHANGED <<norm_in, norm_out, queueVars, blog_in, blog_out, prio_in,
                   prio_out>>
    /\ UNCHANGED <<dupVars, parVars>>

InsertNext == \E e \in StoredEntries, ok \in BOOLEAN : InsertNews(e, ok)
SpecInsert == InsertInit /\ [][InsertNext]_vars

(***************************************************************************)
(* process_queue over the rows of processing_queue                         *)
(***************************************************************************)
\* rows of processing_queue
MaxQueue == 3
\* largest limit of a call of process_queue
MaxLimit == 2
\* calls of process_queue
MaxCalls == 2

\* the rows of news the queue refers to, as get_pending_news selects them
QueuedS == [title |-> "apple banana cherry", description |-> Str(""),
            content |-> Str("xx"), priority_score |-> Num(3)]
QueuedT == [title |-> "Apple Banana Cherry", description |-> Str(""),
            content |-> Str("xxx"), priority_score |-> Num(3)]
QueuedX == [title |-> "banana cherry date", description |-> Str(""),
            content |-> Null, priority_score |-> Num(2)]
QueuedY == [title |-> "cherry date egg", description |-> Str(""),
            content |-> Null, priority_score |-> Num(1)]
QueuedNews == {QueuedS, QueuedT, QueuedX, QueuedY}

\* the tables: every row for another row of news, pending or completed
QueueTables ==
    UNION {{q \in [1..n -> [news : QueuedNews, status : {"pending", "completed"}]] :
              \A i, j \in 1..n : i # j => q[i].news # q[j].news} : n \in 0..MaxQueue}

\* n.priority_score of the row of queue id
QueuedScore(id) == queue[id].news.priority_score.v

\* get_pending_news(limit): the ids of the pending rows by priority_score,
\* highest first, rows of one score in any order, at most limit of them
get_pending_news(limit) ==
    LET pending == {id \in DOMAIN queue : queue[id].status = "pending"}
        n == IF Cardinality(pending) < limit THEN Cardinality(pending) ELSE limit
    IN  {ids \in [1..n -> pending] :
            /\ \A i, j \in 1..n : i < j =>
                  /\ ids[i] # ids[j]
                  /\ QueuedScore(ids[i]) >= QueuedScore(ids[j])
            /\ \A id \in pending :
                  (\A k \in 1..n : ids[k] # id) =>
                      \A k \in 1..n : QueuedScore(ids[k]) >= QueuedScore(id)}

\* the dict of a selected row: the columns of news and queue_id
QueuedDict(id) ==
    [title |-> queue[id].news.title, description |-> queue[id].news.description,
     content |-> queue[id].news.content,
     priority_score |-> queue[id].news.priority_score, queue_id |-> id]

\* pending[:limit]
Prefix(list, limit) == SubSeq(list, 1, IF Len(list) < limit THEN Len(list) ELSE limit)

QueueInit ==
    /\ queue \in QueueTables
    /\ pq = NoCall
    /\ NormIdle
    /\ insert_out = None
    /\ BlogIdle
    /\ PrioIdle
    /\ DupIdle
    /\ ParIdle
    /\ RunInit

\* process_queue(limit) up to its loop; has_key: one of the API keys is set
StartProcessQueue(limit, has_key) ==
    /\ pq.pc = "idle"
    /\ pq.calls < MaxCalls
    /\ IF ~has_key
         THEN pq' = [pq EXCEPT !.calls = @ + 1, !.limit = limit,
                               !.before = [id \in DOMAIN queue |-> queue[id].status],
                               !.fetched = <<>>, !.dropped = {}, !.batch = <<>>,
                               !.next = 1, !.processed = {}, !.raised = FALSE,
                               !.dropped_earlier = pq.dropped_earlier \cup pq.dropped]
       ELSE \E pending \in get_pending_news(limit * 2) :
              \E unique \in {deduplicate_news_for_blog(
                                 [k \in 1..Len(pending) |-> QueuedDict(pending[k])])} :
                pq' = [pq EXCEPT
                         !.pc = "loop", !.calls = @ + 1, !.limit = limit,
                         !.before = [id \in DOMAIN queue |-> queue[id].status],
                         !.fetched = pending,
                         !.dropped = {pending[k] : k \in 1..Len(pending)}
                                       \ {unique[k].queue_id : k \in 1..Len(unique)},
                         !.batch = [k \in 1..Len(Prefix(unique, limit)) |->
                                       unique[k].queue_id],
                         !.next = 1, !.processed = {}, !.raised = FALSE,
                         !.dropped_earlier = pq.dropped_earlier \cup pq.dropped]
    /\ UNCHANGED queue
    /\ UNCHANGED <<norm_in, norm_out, insert_out, blog_in, blog_out, prio_in,
                   prio_out>>
    /\ UNCHANGED <<dupVars, runVars, parVars>>

\* process_single_news(news) for the next item of the loop; rewritten_ok:
\* rewrite_news and save_blog_post do not raise; update_ok:
\* update_queue_status does not raise.  When it raises in the try block the
\* handler calls it again, and when it raises in the handler the exception
\* leaves process_single_news and process_queue.
ProcessSingleNews(rewritten_ok, update_ok) ==
    /\ pq.pc = "loop"
    /\ pq.next <= Len(pq.batch)
    /\ LET queue_id == pq.batch[pq.next]
       IN  /\ queue' = IF update_ok
                          THEN [queue EXCEPT ![queue_id].status =
                                   IF rewritten_ok THEN "completed" ELSE "error"]
                        ELSE queue
           /\ pq' = [pq EXCEPT !.processed = @ \cup {queue_id},
                                !.next = @ + 1,
                                !.raised = ~update_ok,
                                !.pc = IF update_ok THEN "loop" ELSE "idle"]
    /\ UNCHANGED <<norm_in, norm_out, insert_out, blog_in, blog_out, prio_in,
                   prio_out>>
    /\ UNCHANGED <<dupVars, runVars, parVars>>

\* process_queue returns after its loop
EndProcessQueue ==
    /\ pq.pc = "loop"
    /\ pq.next > Len(pq.batch)
    /\ pq' = [pq EXCEPT !.pc = "idle"]
    /\ UNCHANGED queue
    /\ UNCHANGED <<norm_in, norm_out, insert_out, blog_in, blog_out, prio_in,
                   prio_out>>
    /\ UNCHANGED <<dupVars, runVars, parVars>>

QueueNext ==
    \/ \E limit \in 1..MaxLimit, has_key \in BOOLEAN : StartProcessQueue(limit, has_key)
    \/ \E rewritten_ok, update_ok \in BOOLEAN : ProcessSingleNews(rewritten_ok, update_ok)
    \/ EndProcessQueue

SpecQueue == QueueInit /\ [][QueueNext]_vars

(***************************************************************************)
(* Per-source workers in parallel, every access to the cache serialized    *)
(***************************************************************************)
\* workers of the pool
NumWorkers == 2
\* entries of the feeds of all the workers together
MaxWorkerEntries == 2
Workers == 1..NumWorkers

\* the entries the workers have taken from their feeds so far
RECURSIVE TakenUpTo(_)
TakenUpTo(w) == IF w = 0 THEN 0 ELSE workers[w].taken + TakenUpTo(w - 1)

\* The run starts: the cache is reset and every worker gets a source.
ParStart ==
    /\ pc = "idle"
    /\ pc' = "workers"
    /\ cache' = None
    /\ cache_time' = None
    /\ workers' = [w \in Workers |->
                     [at |-> "begin", taken |-> 0, entry |-> None,
                      news_id |-> None, checked_at |-> 0, dropped |-> None]]
    /\ UNCHANGED <<news, clock, ticks, runs, src, remaining, stats, results,
                   accepted, lookup, events, dupVars, fnVars>>

\* Worker w looks the cache up at the start of its source, as process_feed
\* does: one access to the cache, which loads it from the storage when it
\* is unset. The workers start together, within the time the cache stays
\* fresh. A failing query ends the source.
ParBegin(w, db_ok) ==
    /\ pc = "workers"
    /\ workers[w].at = "begin"
    /\ events' = events + 1
    /\ IF NeedsRefresh
         THEN IF db_ok
                THEN /\ \E rows \in get_recent_titles_for_dedup(clock, DedupHours) :
                            cache' = Some(rows)
                     /\ cache_time' = Some(clock)
                     /\ workers' = [workers EXCEPT ![w] = [@ EXCEPT !.at = "next"]]
                ELSE /\ workers' = [workers EXCEPT ![w] =
                                      [@ EXCEPT !.at = "failed"]]
                     /\ UNCHANGED <<cache, cache_time>>
         ELSE /\ db_ok
              /\ workers' = [workers EXCEPT ![w] = [@ EXCEPT !.at = "next"]]
              /\ UNCHANGED <<cache, cache_time>>
    /\ UNCHANGED <<news, clock, ticks, runs, pc, src, remaining, stats, results,
                   accepted, lookup, dupVars, fnVars>>

\* Worker w takes entry e of its feed and reads the cache for detection,
\* as process_feed does up to the score: one access to the cache.
ParCheck(w, e) ==
    /\ pc = "workers"
    /\ workers[w].at = "next"
    /\ TakenUpTo(NumWorkers) < MaxWorkerEntries
    /\ events' = events + 1
    /\ LET title == Clean(e.title)
           description == Clean(e.summary)
           duplicate_id == is_duplicate(title, description, cache[1], DefaultThreshold)
           priority == calculate_priority(title, description,
                                          PositiveKeywords, NegativeKeywords)
       IN  workers' = [workers EXCEPT ![w] =
                IF title = "" \/ e.link = ""
                  THEN [@ EXCEPT !.taken = @ + 1]
                ELSE IF Truthy(duplicate_id)
                  THEN [@ EXCEPT !.taken = @ + 1,
                                 !.dropped = Some([title |-> title, link |-> e.link,
                                                   description |-> description,
                                                   checked_at |-> events'])]
                ELSE IF priority.score < 0
                  THEN [@ EXCEPT !.taken = @ + 1]
                ELSE [@ EXCEPT !.taken = @ + 1, !.at = "insert",
                               !.checked_at = events',
                               !.entry = Some([title |-> title, link |-> e.link,
                                               description |-> description,
                                               priority_score |-> priority.score])]]
    /\ UNCHANGED <<news, cache, cache_time, clock, ticks, runs, pc, src, remaining,
                   stats, results, accepted, lookup, dupVars, fnVars>>

\* Worker w inserts the entry it checked.
ParInsert(w, db_ok) ==
    /\ pc = "workers"
    /\ workers[w].at = "insert"
    /\ LET entry == workers[w].entry[1]
           news_id == insert_news_id(entry.link, db_ok)
       IN  /\ news' = insert_news_rows(w, entry.title, entry.link, entry.description,
                                       entry.priority_score, db_ok)
           /\ workers' = [workers EXCEPT ![w] =
                IF Truthy(news_id)
                  THEN [@ EXCEPT !.at = "append", !.news_id = news_id]
                  ELSE [@ EXCEPT !.at = "next", !.entry = None,
                                 !.checked_at = 0]]
    /\ UNCHANGED <<cache, cache_time, clock, ticks, runs, pc, src, remaining,
                   stats, results, accepted, lookup, events, dupVars, fnVars>>

\* Worker w appends the entry it inserted: one access to the cache.
ParAppend(w) ==
    /\ pc = "workers"
    /\ workers[w].at = "append"
    /\ events' = events + 1
    /\ LET entry == workers[w].entry[1]
       IN  /\ cache' = add_to_cache(cache, workers[w].news_id[1], entry.title,
                                    entry.description)
           /\ accepted' = Append(accepted,
                                 [id |-> workers[w].news_id[1], title |-> entry.title,
                                  description |-> entry.description,
                                  link |-> entry.link,
                                  checked_at |-> workers[w].checked_at,
                                  appended_at |-> events'])
    /\ workers' = [workers EXCEPT ![w] =
                     [@ EXCEPT !.at = "next", !.entry = None, !.news_id = None,
                               !.checked_at = 0]]
    /\ UNCHANGED <<news, cache_time, clock, ticks, runs, pc, src, remaining,
                   stats, results, lookup, dupVars, fnVars>>

ParNext ==
    \/ ParStart
    \/ \E w \in Workers, ok \in BOOLEAN : ParBegin(w, ok)
    \/ \E w \in Workers, e \in Catalog : ParCheck(w, e)
    \/ \E w \in Workers, ok \in BOOLEAN : ParInsert(w, ok)
    \/ \E w \in Workers : ParAppend(w)

\* the parallel ingestion run
SpecPar == RunSpecInit /\ [][ParNext]_vars

(***************************************************************************)
(* The batch functions as functions of their arguments                     *)
(***************************************************************************)
\* longest news_list of a call
MaxBatch == 3

\* thresholds of group_similar_news: its default, and a lower one
GroupThresholds == {BatchThreshold, Score(2, 10)}

NewsLists == UNION {[1..n -> NewsItems] : n \in 0..MaxBatch}

\* the calls: group_similar_news with a threshold, select_best_from_group
\* with the list as one group, deduplicate_news_for_blog
BlogCalls ==
    [call : {"group_similar_news"}, news_list : NewsLists,
     threshold : GroupThresholds]
    \cup [call : {"select_best_from_group"}, news_list : NewsLists \ {<<>>},
          threshold : {BatchThreshold}]
    \cup [call : {"deduplicate_news_for_blog"}, news_list : NewsLists,
          threshold : {BatchThreshold}]

BlogInit ==
    /\ blog_in \in BlogCalls
    /\ blog_out = None
    /\ PrioIdle
    /\ CallIdle
    /\ DupIdle
    /\ ParIdle
    /\ RunInit

\* group_similar_news(news_list, threshold)
CallGroupSimilarNews ==
    /\ blog_in.call = "group_similar_news"
    /\ blog_out = None
    /\ blog_out' = Some([positions |-> group_positions(blog_in.news_list,
                                                       blog_in.threshold),
                         groups |-> group_similar_news(blog_in.news_list,
                                                       blog_in.threshold)])
    /\ UNCHANGED <<blog_in, prio_in, prio_out, callVars>>
    /\ UNCHANGED <<dupVars, runVars, parVars>>

\* select_best_from_group(group)
CallSelectBest ==
    /\ blog_in.call = "select_best_from_group"
    /\ blog_out = None
    /\ blog_out' = Some(select_best_from_group(blog_in.news_list))
    /\ UNCHANGED <<blog_in, prio_in, prio_out, callVars>>
    /\ UNCHANGED <<dupVars, runVars, parVars>>

\* deduplicate_news_for_blog(news_list)
CallDeduplicate ==
    /\ blog_in.call = "deduplicate_news_for_blog"
    /\ blog_out = None
    /\ blog_out' = Some(deduplicate_news_for_blog(blog_in.news_list))
    /\ UNCHANGED <<blog_in, prio_in, prio_out, callVars>>
    /\ UNCHANGED <<dupVars, runVars, parVars>>

BlogNext ==
    \/ CallGroupSimilarNews
    \/ CallSelectBest
    \/ CallDeduplicate

SpecBlog == BlogInit /\ [][BlogNext]_vars

(***************************************************************************)
(* calculate_priority as a function of its arguments                       *)
(***************************************************************************)
\* longest keyword list of a call
MaxKeywords == 2

PrioTitles == {"Gold Deal", "SPONSORED: banana", "Wheat Export Ban", ""}
PrioDescs == {"", "Sponsored content", "gold banana"}
\* keywords as the keywords table may hold them
PositiveTerms == {"gold", "banana", "Gold", "ban", "ban gold"}
NegativeTerms == {"sponsored", "Sponsored"}
KeywordLists(terms) == UNION {[1..n -> terms] : n \in 0..MaxKeywords}

PrioInit ==
    /\ prio_in \in [title : PrioTitles, description : PrioDescs,
                    positive_keywords : KeywordLists(PositiveTerms),
                    negative_keywords : KeywordLists(NegativeTerms)]
    /\ prio_out = None
    /\ BlogIdle
    /\ CallIdle
    /\ DupIdle
    /\ ParIdle
    /\ RunInit

\* calculate_priority(title, description, positive_keywords, negative_keywords)
CallCalculatePriority ==
    /\ prio_out = None
    /\ prio_out' = Some(calculate_priority(prio_in.title, prio_in.description,
                                           prio_in.positive_keywords,
                                           prio_in.negative_keywords))
    /\ UNCHANGED <<prio_in, blog_in, blog_out, callVars>>
    /\ UNCHANGED <<dupVars, runVars, parVars>>

PrioNext == CallCalculatePriority
SpecPrio == PrioInit /\ [][PrioNext]_vars

(***************************************************************************)
(* Properties of is_duplicate (SpecDup)                                    *)
(***************************************************************************)
DupCalled == dup_out # None
DupResult == dup_out[1]
DupCands == dup_in.existing_titles
\* candidate k has the title hash of the new item
HashMatch(k) ==
    generate_title_hash(dup_in.new_title) = generate_title_hash(DupCands[k].title)
\* the similarity of candidate k to the new item
SimOf(k) ==
    calculate_similarity_score(dup_in.new_title, DupCands[k].title,
                               dup_in.new_desc, DupCands[k].description)
SimMatch(k) == ScoreGE(SimOf(k), dup_in.threshold)
Matching == {k \in 1..Len(DupCands) : HashMatch(k) \/ SimMatch(k)}

\* C2: with T1 cached and T2 new (empty descriptions), the similarity is at
\* least 0.6 and is_duplicate at threshold 0.6 returns the id of T1.
C2_FedScenarioIsDuplicate ==
    (/\ DupCalled
     /\ dup_in.new_title = T2
     /\ dup_in.new_desc = ""
     /\ dup_in.threshold = DefaultThreshold
     /\ Len(DupCands) = 1
     /\ DupCands[1].title = T1
     /\ DupCands[1].description = "")
    => /\ ScoreGE(SimOf(1), DefaultThreshold)
       /\ DupResult.id = Some(DupCands[1].id)

\* C3: when the text of the new item normalizes to the empty string,
\* is_duplicate returns None whatever the candidates are.
C3_EmptyInputNotDuplicate ==
    (DupCalled /\ Normalized(Combined(dup_in.new_title, dup_in.new_desc)) = "")
    => DupResult.id = None

\* C9: is_duplicate returns the id of the first candidate, in list order,
\* whose title hash equals the new one's or whose similarity is >= the
\* threshold, and None exactly when there is no such candidate.
C9_FirstMatchReturned ==
    DupCalled =>
        IF Matching = {} THEN DupResult.id = None
        ELSE DupResult.id = Some(DupCands[Min(Matching)].id)

\* C9 witness: the second candidate is returned for a similarity equal to
\* the threshold, the first one matching neither way.
C9_Witness ==
    /\ DupCalled
    /\ Len(DupCands) = 2
    /\ Matching = {2}
    /\ ~HashMatch(2)
    /\ ScoreEq(SimOf(2), dup_in.threshold)
    /\ DupResult.id = Some(DupCands[2].id)

\* C10 as stated: every candidate with the title hash of the new item has
\* its id returned, and no similarity is computed for it.
C10_HashMatchAlwaysReturned ==
    DupCalled =>
        \A k \in 1..Len(DupCands) :
            HashMatch(k) => /\ DupResult.id = Some(DupCands[k].id)
                            /\ k \notin SeqToSet(DupResult.compared)

\* C10 amended: a candidate with the title hash of the new item that no
\* matching candidate precedes has its id returned, whatever the
\* descriptions and the threshold; no similarity is ever computed for a
\* candidate with the title hash of the new item, and the result is not None.
C10_FirstHashMatchReturned ==
    DupCalled =>
        \A k \in 1..Len(DupCands) :
            HashMatch(k) =>
                /\ k \notin SeqToSet(DupResult.compared)
                /\ DupResult.id # None
                /\ (\A j \in 1..(k - 1) : j \notin Matching)
                      => DupResult.id = Some(DupCands[k].id)

\* C10 witness: the second candidate is returned for its hash, with a
\* threshold no similarity reaches and descriptions that differ.
C10_Witness ==
    /\ DupCalled
    /\ Len(DupCands) = 2
    /\ HashMatch(2)
    /\ ~HashMatch(1)
    /\ dup_in.threshold = Score(11, 10)
    /\ dup_in.new_desc # DupCands[2].description
    /\ DupResult.id = Some(DupCands[2].id)
    /\ DupResult.compared = <<1>>

(***************************************************************************)
(* Properties of calculate_similarity_score (SpecSim)                      *)
(***************************************************************************)
\* C20: the similarity of item A to item B equals the similarity of item B
\* to item A, for all titles and descriptions.
C20_SimilaritySymmetric ==
    dup_out # None =>
        /\ ScoreEq(dup_out[1].forward, dup_out[1].backward)
        /\ dup_out[1].forward = dup_out[1].backward

\* C20 witness: two items with entity sets of different sizes that overlap,
\* and a similarity between 0 and 1 in both directions.
C20_Witness ==
    /\ dup_out # None
    /\ LET entities1 == Entities(Combined(dup_in.title1, dup_in.desc1))
           entities2 == Entities(Combined(dup_in.title2, dup_in.desc2))
       IN  /\ Cardinality(entities1) < Cardinality(entities2)
           /\ entities1 \cap entities2 # {}
    /\ ScoreLess(Score(0, 1), dup_out[1].forward)
    /\ ScoreLess(dup_out[1].backward, Score(1, 1))

\* the arguments and the result of the call of calculate_similarity_score
SimCalled == dup_out # None
SimResult == dup_out[1].forward
SimWords1 == WordsOf(dup_in.title1, dup_in.desc1)
SimWords2 == WordsOf(dup_in.title2, dup_in.desc2)
SimEntities1 == Entities(Combined(dup_in.title1, dup_in.desc1))
SimEntities2 == Entities(Combined(dup_in.title2, dup_in.desc2))
SameItem == dup_in.title1 = dup_in.title2 /\ dup_in.desc1 = dup_in.desc2

\* C21: the similarity of an item with itself is exactly 1.0 whenever its
\* normalized token set is not empty, whether or not its entity set is
\* empty, and the similarity of two empty texts is 0.0.
C21_SelfSimilarityIsOne ==
    SimCalled =>
        /\ (SameItem /\ SimWords1 # {}) => SimResult.num = SimResult.den
        /\ (SameItem /\ SimWords1 # {}) => SimResult.den > 0
        /\ (dup_in.title1 = "" /\ dup_in.title2 = ""
              /\ dup_in.desc1 = "" /\ dup_in.desc2 = "") => SimResult.num = 0

\* C21 witness: an item with tokens and no entities compared with itself,
\* with the result 1.
C21_Witness ==
    /\ SimCalled
    /\ SameItem
    /\ SimWords1 # {}
    /\ SimEntities1 = {}
    /\ ScoreEq(SimResult, Score(1, 1))

\* C22: the similarity lies in [0.0, 1.0] for all inputs, and it is 0.0
\* whenever the normalized token set of either side is empty, even when the
\* two sides share entities.
C22_SimilarityInUnitRange ==
    SimCalled =>
        /\ SimResult.den > 0
        /\ 0 <= SimResult.num
        /\ SimResult.num <= SimResult.den
        /\ (SimWords1 = {} \/ SimWords2 = {}) => SimResult.num = 0

\* C22 witness: one side without tokens, the other with tokens, a shared
\* entity, and the result 0.
C22_Witness ==
    /\ SimCalled
    /\ SimWords1 = {}
    /\ SimWords2 # {}
    /\ SimEntities1 \cap SimEntities2 # {}
    /\ ScoreEq(SimResult, Score(0, 1))

\* C23: when both token sets are not empty the similarity is
\* 0.4 x Jaccard + 0.6 x |E_A \cap E_B| / max(|E_A|, |E_B|) if both entity
\* sets, taken from the combined texts as given, are not empty, and the
\* Jaccard value if one of them is empty.
C23_BlendOfJaccardAndEntities ==
    (SimCalled /\ SimWords1 # {} /\ SimWords2 # {}) =>
        LET shared == Cardinality(SimWords1 \cap SimWords2)
            all == Cardinality(SimWords1 \cup SimWords2)
            common == Cardinality(SimEntities1 \cap SimEntities2)
            larger == IF Cardinality(SimEntities1) >= Cardinality(SimEntities2)
                        THEN Cardinality(SimEntities1)
                        ELSE Cardinality(SimEntities2)
        IN  IF SimEntities1 # {} /\ SimEntities2 # {}
              \* 10 x result = 4 x shared / all + 6 x common / larger
              THEN 10 * SimResult.num * all * larger
                     = SimResult.den * (4 * shared * larger + 6 * common * all)
              ELSE SimResult.num * all = SimResult.den * shared

\* C23 witness: both entity sets not empty and overlapping in part, the
\* token sets overlapping in part, and a result that is not the Jaccard
\* value.
C23_Witness ==
    /\ SimCalled
    /\ SimWords1 \cap SimWords2 # {}
    /\ SimWords1 # SimWords2
    /\ SimEntities1 \cap SimEntities2 # {}
    /\ SimEntities1 # SimEntities2
    /\ SimResult.num * Cardinality(SimWords1 \cup SimWords2)
         # SimResult.den * Cardinality(SimWords1 \cap SimWords2)

(***************************************************************************)
(* Properties of normalize_text (SpecNorm)                                 *)
(***************************************************************************)
NormCalled == norm_out # None
\* the tokens of the result of normalize_text
NormTokens == Split(norm_out[1].once)

\* C24: normalize_text is idempotent and independent of the order of the
\* words: normalizing its result changes nothing; the result holds only
\* lower-case tokens longer than 2 characters that are no stopwords, in
\* sorted order; and the words of the text in any other order give the same
\* result and the same title hash.
C24_NormalizeIdempotentOrderFree ==
    NormCalled =>
        /\ norm_out[1].twice = norm_out[1].once
        /\ \A k \in 1..Len(NormTokens) :
              /\ MapChars(NormTokens[k], LowerOf) = NormTokens[k]
              /\ Len(NormTokens[k]) > 2
              /\ NormTokens[k] \notin STOPWORDS
        /\ \A k \in 1..(Len(NormTokens) - 1) :
              ~StrLess(NormTokens[k + 1], NormTokens[k])
        /\ norm_out[1].reordered = {norm_out[1].once}
        /\ norm_out[1].hashes = {norm_out[1].hash}

\* C24 witness: three different words that all leave tokens, given in
\* descending order, and a result of at least three tokens.
C24_Witness ==
    /\ NormCalled
    /\ Len(norm_in) = 3
    /\ norm_in[1] # norm_in[2]
    /\ norm_in[2] # norm_in[3]
    /\ Len(NormTokens) >= 3
    /\ StrLess(MapChars(norm_in[2], LowerOf), MapChars(norm_in[1], LowerOf))
    /\ StrLess(MapChars(norm_in[3], LowerOf), MapChars(norm_in[2], LowerOf))

(***************************************************************************)
(* Properties of insert_news (SpecInsert)                                  *)
(***************************************************************************)
InsertCalled == insert_out # None
\* the link of the last call was stored before the call
LinkStored ==
    \E i \in 1..Len(insert_out[1].before) :
        insert_out[1].before[i].link = insert_out[1].link
\* the table holds at most one row per link
OneRowPerLink ==
    \A i, j \in 1..Len(news) : news[i].link = news[j].link => i = j
\* the last call stored one row more, with the link and the id it returned
RowCreated ==
    /\ insert_out[1].news_id # None
    /\ Len(news) = Len(insert_out[1].before) + 1
    /\ SubSeq(news, 1, Len(news) - 1) = insert_out[1].before
    /\ news[Len(news)].link = insert_out[1].link
    /\ news[Len(news)].id = insert_out[1].news_id[1]
    /\ \A i \in 1..(Len(news) - 1) : news[i].id # news[Len(news)].id
\* the last call returned None and left the table as it was
NothingStored ==
    /\ insert_out[1].news_id = None
    /\ news = insert_out[1].before

InRun == runs > 0 /\ pc \in {"run", "feed"}
\* cache entry c is a row the query of the lookup of this run returned
FromStorage(c) ==
    \E i \in RecentRows(lookup[1].time, DedupHours) :
        /\ news[i].id = c.id
        /\ news[i].title = c.title
        /\ news[i].description = c.description
\* cache entry c was appended in this run
FromThisRun(c) ==
    \E k \in 1..Len(accepted) :
        /\ accepted[k].id = c.id
        /\ accepted[k].title = c.title
        /\ accepted[k].description = c.description

\* C26: a run starts from a view of the storage: fetch_all_sources clears
\* the snapshot and its time before any source is processed, so every
\* lookup up to the first that succeeds queries the storage, and the
\* entries the run checks against are rows that query returned or entries
\* the run appended itself, none left from the snapshot of the earlier run.
C26_RunStartsFromStorage ==
    /\ (InRun /\ lookup = None) => (cache = None /\ cache_time = None)
    /\ (InRun /\ lookup # None) =>
          /\ lookup[1].before = None
          /\ lookup[1].failed \/ lookup[1].refreshed
          /\ lookup[1].failed => cache = None
    /\ (InRun /\ pc = "feed") =>
          /\ cache # None
          /\ cache_time = Some(lookup[1].time)
          /\ \A k \in 1..Len(cache[1]) :
                FromStorage(cache[1][k]) \/ FromThisRun(cache[1][k])

\* C26 witness: a run that began when the cache of the earlier run was
\* 300 s old and 72 hours and a day after its row was stored, at the loop of a feed
\* with a cache the row is not in.
C26_Witness ==
    /\ InRun
    /\ pc = "feed"
    /\ Len(news) > 0
    /\ lookup[1].time = DedupHours * 3600 + SecondsPerDay
    /\ lookup[1].refreshed
    /\ \A k \in 1..Len(cache[1]) : cache[1][k].id # news[1].id

(***************************************************************************)
(* Properties of the ingestion run (Spec)                                  *)
(***************************************************************************)
\* entry b is a duplicate of entry a: same title hash, or similarity of b to
\* a at or above the threshold of process_feed
NearDuplicate(b, a) ==
    \/ generate_title_hash(b.title) = generate_title_hash(a.title)
    \/ ScoreGE(calculate_similarity_score(b.title, a.title,
                                          b.description, a.description),
               DefaultThreshold)

\* C1: no two entries accepted in the same run are duplicates of each
\* other: an entry accepted after another has a different title hash and a
\* similarity to it below 0.6.
C1_NoDuplicatesAcceptedInRun ==
    \A i, j \in 1..Len(accepted) :
        i < j => ~NearDuplicate(accepted[j], accepted[i])

\* C28: fetch_all_sources returns one result per source, in the order of
\* the sources; a source whose fetch or processing raises is marked failed
\* (success false, error set), the others are not, and the run goes on to
\* the remaining sources: once the sources are read the run does not end
\* before every source has its result.
C28_OneResultPerSourceDespiteErrors ==
    /\ \A k \in 1..Len(results) :
          /\ results[k].source_id = k
          /\ results[k].success = ~results[k].error
    /\ pc = "done" => Len(results) = NumSources
    /\ (pc = "aborted" /\ stats.source_id > 0) => Len(results) = NumSources

\* when the row of a cache entry was fetched
FetchedAt(id) == news[id].fetched_at
\* the positions of the cache entries that match entry e
CacheMatches(e) ==
    {k \in 1..Len(cache[1]) :
        NearDuplicate([title |-> Clean(e.title), description |-> Clean(e.summary)],
                      cache[1][k])}

\* C4: during a run the candidate list is ordered most recent first, the
\* appended entries included, and for every new item the id returned is that
\* of a most recent matching entry.
C4_CacheMostRecentFirst ==
    (pc = "feed" /\ cache # None) =>
        /\ \A i, j \in 1..Len(cache[1]) :
              i < j => FetchedAt(cache[1][i].id) >= FetchedAt(cache[1][j].id)
        /\ \A e \in Catalog :
              CacheMatches(e) # {} =>
                  LET found == is_duplicate(Clean(e.title), Clean(e.summary),
                                            cache[1], DefaultThreshold)
                  IN  /\ found # None
                      /\ \A k \in CacheMatches(e) :
                            FetchedAt(found[1]) >= FetchedAt(cache[1][k].id)

\* C5: the cache never holds more entries than the limit of the query.
C5_CacheWithinLimit ==
    cache # None => Len(cache[1]) <= QueryLimit

\* C6: a lookup queries the storage when the cache is unset or was loaded
\* more than 300 seconds ago, so what it returns was loaded at most 300
\* seconds before.
C6_LookupAtMostFiveMinutesOld ==
    (lookup # None /\ ~lookup[1].failed) =>
        /\ (\/ lookup[1].before = None
            \/ lookup[1].time - lookup[1].before[1] > CacheMaxAge)
               => lookup[1].refreshed
        /\ lookup[1].time - lookup[1].loaded[1] <= CacheMaxAge

\* C7: a source whose cache refresh failed still has its entries checked
\* and processed, against the snapshot there was.
C7_RefreshFailureStillProcesses ==
    \A i \in 1..Len(results) :
        results[i].refresh_failed =>
            results[i].processed = results[i].news_count

(***************************************************************************)
(* Properties of the parallel run (SpecPar)                                *)
(***************************************************************************)
\* C8 as stated: with every single access to the cache serialized, two
\* duplicates with different links are never both accepted.
C8_SerializedAccessesNoDuplicates ==
    \A i, j \in 1..Len(accepted) :
        (i < j /\ accepted[i].link # accepted[j].link)
            => ~NearDuplicate(accepted[j], accepted[i])

\* C8 amended: an entry whose check comes after the append of a duplicate
\* of it is not accepted; two duplicates are both accepted only when the
\* check of the later one came before the append of the earlier one.
C8_CheckAfterAppendNoDuplicates ==
    \A i, j \in 1..Len(accepted) :
        (i # j /\ accepted[j].checked_at > accepted[i].appended_at)
            => ~NearDuplicate(accepted[j], accepted[i])

\* C8 witness: a worker checked its entry after a duplicate of it, with
\* another link, had been appended by another worker, and dropped it.
C8_Witness ==
    /\ pc = "workers"
    /\ \E w \in Workers :
          /\ workers[w].dropped # None
          /\ \E i \in 1..Len(accepted) :
                /\ accepted[i].link # workers[w].dropped[1].link
                /\ accepted[i].appended_at < workers[w].dropped[1].checked_at
                /\ NearDuplicate(workers[w].dropped[1], accepted[i])

(***************************************************************************)
(* Properties of the batch functions (SpecBlog)                            *)
(***************************************************************************)
BlogCalled(call) == blog_in.call = call /\ blog_out # None
BlogResult == blog_out[1]
BlogList == blog_in.news_list
BlogItems == {BlogList[p] : p \in 1..Len(BlogList)}

\* priority_score of an item, a missing one counting as 0
PriorityOf(x) == IF x.priority_score.kind = "num" THEN x.priority_score.v ELSE 0
\* length of a text field, a missing or null one counting as 0
LengthOf(field) == IF field.kind = "str" THEN Len(field.v) ELSE 0

\* sets of two or more positions of the list whose items are pairwise
\* similar at or above the batch threshold
Clusters ==
    {c \in SUBSET (1..Len(BlogList)) :
        /\ Cardinality(c) >= 2
        /\ \A a, b \in c :
              a # b => ScoreGE(NewsSimilarity(BlogList[a], BlogList[b]),
                               BatchThreshold)}

\* C11: for every set of input items pairwise similar at or above 0.5, a
\* member with the highest priority_score of the set is in the output of
\* deduplicate_news_for_blog.
C11_BestOfClusterKept ==
    BlogCalled("deduplicate_news_for_blog") =>
        \A c \in Clusters :
            \E p \in c :
                /\ \A q \in c : PriorityOf(BlogList[q]) <= PriorityOf(BlogList[p])
                /\ \E i \in 1..Len(BlogResult) : BlogResult[i] = BlogList[p]

\* C12: the output of deduplicate_news_for_blog has one item per group, is
\* not longer than the input, and each of its items is an input item.
C12_OneInputItemPerGroup ==
    BlogCalled("deduplicate_news_for_blog") =>
        /\ Len(BlogResult) = Len(group_positions(BlogList, BatchThreshold))
        /\ Len(BlogResult) <= Len(BlogList)
        /\ \A i \in 1..Len(BlogResult) : BlogResult[i] \in BlogItems

\* C12 witness: three items of which two form one group, two items out.
C12_Witness ==
    /\ BlogCalled("deduplicate_news_for_blog")
    /\ Len(BlogList) = 3
    /\ Len(BlogResult) = 2
    /\ BlogResult[1] # BlogList[1]

\* the places (group, index) of the result of group_similar_news
GroupPlaces ==
    {pl \in (1..Len(BlogResult.positions)) \X (1..Len(BlogList)) :
        pl[2] <= Len(BlogResult.positions[pl[1]])}

\* C13: every position of the input is in exactly one group of
\* group_similar_news, no group is empty, and the groups hold the items at
\* their positions, so together exactly the input items.
C13_GroupsPartitionInput ==
    BlogCalled("group_similar_news") =>
        /\ \A p \in 1..Len(BlogList) :
              Cardinality({pl \in GroupPlaces :
                              BlogResult.positions[pl[1]][pl[2]] = p}) = 1
        /\ \A pl \in GroupPlaces :
              /\ BlogResult.positions[pl[1]][pl[2]] \in 1..Len(BlogList)
              /\ BlogResult.groups[pl[1]][pl[2]]
                    = BlogList[BlogResult.positions[pl[1]][pl[2]]]
        /\ Len(BlogResult.groups) = Len(BlogResult.positions)
        /\ \A g \in 1..Len(BlogResult.groups) :
              /\ BlogResult.groups[g] # <<>>
              /\ Len(BlogResult.groups[g]) = Len(BlogResult.positions[g])

\* C13 witness: three items in two groups, the middle one alone.
C13_Witness ==
    /\ BlogCalled("group_similar_news")
    /\ Len(BlogList) = 3
    /\ BlogResult.positions = <<<<1, 3>>, <<2>>>>

\* the positions of the groups before group g
Assigned(g) ==
    {BlogResult.positions[pl[1]][pl[2]] : pl \in {q \in GroupPlaces : q[1] < g}}
SeedOf(g) == BlogResult.positions[g][1]
JoinedSeed(g, j) == j \in SeqToSet(Tail(BlogResult.positions[g]))
SeedSimilarity(g, j) == NewsSimilarity(BlogList[SeedOf(g)], BlogList[j])

\* C14 as stated: a later item not yet assigned joins the group of the seed
\* exactly when its similarity to the seed is greater than the threshold.
C14_JoinsWhenAboveThreshold ==
    BlogCalled("group_similar_news") =>
        \A g \in 1..Len(BlogResult.positions) :
            \A j \in (SeedOf(g) + 1)..Len(BlogList) :
                j \notin Assigned(g) =>
                    (JoinedSeed(g, j)
                        <=> ~ScoreGE(blog_in.threshold, SeedSimilarity(g, j)))

\* C14 amended: a later item not yet assigned joins the group of the seed
\* exactly when its similarity to the seed is greater than or equal to the
\* threshold.
C14_JoinsWhenAtOrAboveThreshold ==
    BlogCalled("group_similar_news") =>
        \A g \in 1..Len(BlogResult.positions) :
            \A j \in (SeedOf(g) + 1)..Len(BlogList) :
                j \notin Assigned(g) =>
                    (JoinedSeed(g, j)
                        <=> ScoreGE(SeedSimilarity(g, j), blog_in.threshold))

\* C14 witness: an item whose similarity to the seed equals the threshold
\* joined, and one below the threshold did not.
C14_Witness ==
    /\ BlogCalled("group_similar_news")
    /\ Len(BlogList) = 3
    /\ ScoreEq(SeedSimilarity(1, 2), blog_in.threshold)
    /\ ~ScoreGE(SeedSimilarity(1, 3), blog_in.threshold)
    /\ BlogResult.positions = <<<<1, 2>>, <<3>>>>

\* C27: in every group of group_similar_news the first member is the seed,
\* the first item no earlier group holds; every other member comes after
\* the seed in the input and has a similarity to the seed at or above the
\* threshold.  Two members that are not the seed are never compared, so
\* their similarity may be below the threshold (the witness).
C27_MembersSimilarToSeedOnly ==
    BlogCalled("group_similar_news") =>
        \A g \in 1..Len(BlogResult.positions) :
            /\ SeedOf(g) \notin Assigned(g)
            /\ \A p \in 1..(SeedOf(g) - 1) : p \in Assigned(g)
            /\ \A k \in 2..Len(BlogResult.positions[g]) :
                  /\ BlogResult.positions[g][k] > SeedOf(g)
                  /\ ScoreGE(SeedSimilarity(g, BlogResult.positions[g][k]),
                             blog_in.threshold)

\* C27 witness: one group of a seed and two members whose similarity to
\* each other is below the threshold.
C27_Witness ==
    /\ BlogCalled("group_similar_news")
    /\ BlogResult.positions = <<<<1, 2, 3>>>>
    /\ ~ScoreGE(NewsSimilarity(BlogList[2], BlogList[3]), blog_in.threshold)

\* the key (priority_score, length of content, length of description)
BestKey(x) == <<PriorityOf(x), LengthOf(x.content), LengthOf(x.description)>>

\* C15: select_best_from_group returns the member of a group of one, and
\* for a larger group a member no other member exceeds under the key
\* (priority_score, length of content, length of description).
C15_BestOfGroupReturned ==
    BlogCalled("select_best_from_group") =>
        /\ Len(BlogList) = 1 => BlogResult = BlogList[1]
        /\ BlogResult \in BlogItems
        /\ \A x \in BlogItems : ~KeyLess(BestKey(BlogResult), BestKey(x))

\* C15 witness: a group of three with a member without priority_score and
\* with null texts, two members with the highest priority_score, and the
\* one with the longer content returned.
C15_Witness ==
    /\ BlogCalled("select_best_from_group")
    /\ BlogList = <<NewsS, NewsS0, NewsSc>>
    /\ BlogResult = NewsSc

\* C16: the i-th output item of deduplicate_news_for_blog is a member of the
\* i-th group, and the seed of the i-th group is the first input position
\* not in an earlier group, so the seeds are in increasing input order.
C16_GroupDiscoveryOrder ==
    BlogCalled("deduplicate_news_for_blog") =>
        LET positions == group_positions(BlogList, BatchThreshold)
            before(g) == UNION {SeqToSet(positions[h]) : h \in 1..(g - 1)}
        IN  /\ Len(BlogResult) = Len(positions)
            /\ \A g \in 1..Len(positions) :
                  /\ BlogResult[g] \in {BlogList[p] : p \in SeqToSet(positions[g])}
                  /\ positions[g][1] = Min((1..Len(BlogList)) \ before(g))
                  /\ g > 1 => positions[g - 1][1] < positions[g][1]

\* C16 witness: the lowest-priority item seeds the first group and comes
\* first in the output, before the survivor of the second group, which is
\* not that group's seed.
C16_Witness ==
    /\ BlogCalled("deduplicate_news_for_blog")
    /\ BlogList = <<NewsY, NewsS0, NewsS>>
    /\ BlogResult = <<NewsY, NewsS>>

(***************************************************************************)
(* Properties of the loop of process_feed (SpecFeed)                       *)
(***************************************************************************)
\* a negative keyword occurs in the title and description of entry e
IsNegative(e) ==
    \E k \in 1..Len(NegativeKeywords) :
        Contains(MapChars(Clean(e.title) \o " " \o Clean(e.summary), LowerOf),
                 NegativeKeywords[k])

\* entry e is a duplicate of an entry of the cache
IsCached(e) ==
    \E k \in 1..Len(cache[1]) :
        NearDuplicate([title |-> Clean(e.title), description |-> Clean(e.summary)],
                      cache[1][k])

\* C19: a pass of the loop that calls insert_news, or changes the table or
\* the cache, is not a pass for an entry of negative score; a pass that
\* appends to the cache is for an entry that is no duplicate of a cached
\* one and of no negative score, and follows a call of insert_news that
\* stored the row whose id is appended.
C19_OnlyInsertedEntriesCached ==
    [][/\ (\/ stats'.insert_calls # stats.insert_calls
           \/ news' # news
           \/ cache' # cache) =>
             \A e \in Catalog, ok \in BOOLEAN :
                 IsNegative(e) => ~ProcessEntry(e, ok)
       /\ cache' # cache =>
             \A e \in Catalog, ok \in BOOLEAN :
                 ProcessEntry(e, ok) =>
                     /\ ~IsCached(e)
                     /\ ~IsNegative(e)
                     /\ stats'.insert_calls = stats.insert_calls + 1
                     /\ Len(news') = Len(news) + 1
                     /\ news'[Len(news')].title = Clean(e.title)
                     /\ news'[Len(news')].link = e.link
                     /\ news'[Len(news')].priority_score >= 0
                     /\ cache'[1] = Append(cache[1],
                                           [id |-> news'[Len(news')].id,
                                            title |-> Clean(e.title),
                                            description |-> Clean(e.summary)])]_vars

\* C19 witness: the loop skipped an entry of negative score and appended
\* an accepted entry to the loaded cache.
C19_Witness ==
    /\ pc = "feed"
    /\ stats.skipped_count > 0
    /\ Len(cache[1]) = 2
    /\ stats.insert_calls = 1
    /\ Len(accepted) = 1
    /\ cache[1][Len(cache[1])].id = accepted[1].id

\* new_count + skipped_count + duplicate_count of stats
Counted(st) == st.new_count + st.skipped_count + st.duplicate_count

\* C29: in every result of process_feed new_count + skipped_count +
\* duplicate_count is at most news_count; a pass of the loop for one entry
\* increments at most one of the three counters, by one, and none for an
\* entry without title or link or when insert_news returns no id.
C29_CountersWithinNewsCount ==
    [][/\ Counted(stats') + remaining' <= stats'.news_count
       /\ \A k \in 1..Len(results') : Counted(results'[k]) <= results'[k].news_count
       /\ stats'.processed # stats.processed =>
             /\ stats'.news_count = stats.news_count
             /\ stats'.new_count \in {stats.new_count, stats.new_count + 1}
             /\ stats'.skipped_count \in {stats.skipped_count, stats.skipped_count + 1}
             /\ stats'.duplicate_count
                   \in {stats.duplicate_count, stats.duplicate_count + 1}
             /\ Counted(stats') \in {Counted(stats), Counted(stats) + 1}
             /\ (stats'.insert_calls # stats.insert_calls /\ news' = news) =>
                   Counted(stats') = Counted(stats)
             /\ (stats'.insert_calls # stats.insert_calls /\ news' # news) =>
                   stats'.new_count = stats.new_count + 1
             /\ \A e \in Catalog, ok \in BOOLEAN :
                   (Clean(e.title) = "" \/ e.link = "") =>
                       (ProcessEntry(e, ok) => Counted(stats') = Counted(stats))]_vars

\* C29 witness: a result for a feed of two entries, one a duplicate and one
\* for which insert_news returned no id: the counters add up to 1.
C29_Witness ==
    /\ Len(results) = 1
    /\ results[1].news_count = 2
    /\ results[1].duplicate_count = 1
    /\ results[1].insert_calls = 1
    /\ results[1].new_count = 0
    /\ Counted(results[1]) = 1

(***************************************************************************)
(* Properties of process_queue (SpecQueue)                                 *)
(***************************************************************************)
\* the rows fetched by the running or last call
Fetched == {pq.fetched[k] : k \in 1..Len(pq.fetched)}

\* C30: process_queue(limit) processes at most limit pending items after
\* the deduplication of the batch; every item it processes moves from
\* 'pending' to 'completed' or 'error'; every other row, the pending items
\* dropped as duplicates included, keeps its status, and a dropped duplicate
\* that is still pending is fetched again by a later call unless limit * 2
\* rows of at least its priority_score are.
C30_ProcessedMoveOthersStayPending ==
    /\ Cardinality(pq.processed) <= pq.limit
    /\ pq.processed \subseteq (Fetched \ pq.dropped)
    /\ \A id \in DOMAIN queue :
          IF id \in pq.processed
            THEN /\ pq.before[id] = "pending"
                 /\ queue[id].status \in {"completed", "error"}
          ELSE pq.calls > 0 => queue[id].status = pq.before[id]
    /\ \A id \in pq.dropped : queue[id].status = "pending"
    /\ pq.pc = "loop" =>
          \A id \in pq.dropped_earlier :
              pq.before[id] = "pending" =>
                  \/ id \in Fetched
                  \/ /\ Len(pq.fetched) = pq.limit * 2
                     /\ \A k \in 1..Len(pq.fetched) :
                           QueuedScore(pq.fetched[k]) >= QueuedScore(id)

(***************************************************************************)
(* Properties of calculate_priority (SpecPrio)                             *)
(***************************************************************************)
PrioCalled == prio_out # None
PrioResult == prio_out[1]
Lower(s) == MapChars(s, LowerOf)
\* kw occurs in text, compared without regard to letter case
FoundIn(text, kw) == Contains(Lower(text), Lower(kw))
\* title and description as calculate_priority joins them
PrioText == prio_in.title \o " " \o prio_in.description
NegativeOccurs ==
    \E k \in 1..Len(prio_in.negative_keywords) :
        FoundIn(PrioText, prio_in.negative_keywords[k])

\* C17: whenever a negative keyword occurs in title and description,
\* whatever the letter case of the keyword and of the text,
\* calculate_priority returns (-1.0, []), whatever the positive keywords.
C17_NegativeKeywordShortCircuits ==
    (PrioCalled /\ NegativeOccurs)
        => PrioResult = [score |-> -1, matched |-> <<>>]

\* C18: when no negative keyword occurs, the score is 2 for each positive
\* keyword found in the title plus 1 for each found in the text but not in
\* the title, and matched lists the positive keywords found, in the order
\* of the keyword list; with no positive keyword the score is 0, not
\* negative.
C18_PositiveKeywordScore ==
    (PrioCalled /\ ~NegativeOccurs) =>
        LET positive == prio_in.positive_keywords
            inTitle == {k \in 1..Len(positive) : FoundIn(prio_in.title, positive[k])}
            inText == {k \in 1..Len(positive) : FoundIn(PrioText, positive[k])}
            found(kw) == FoundIn(PrioText, kw)
        IN  /\ PrioResult.score
                  = 2 * Cardinality(inTitle) + Cardinality(inText \ inTitle)
            /\ PrioResult.matched = SelectSeq(positive, found)
            /\ positive = <<>> => PrioResult.score = 0

=============================================================================
